---------------------------- MODULE Spec2Model ----------------------------
(***************************************************************************)
(* Model of flood-memory's MemoryStore (src/store.py): the nodes table,    *)
(* the nodes_fts full-text index kept by the three triggers, and the five  *)
(* public operations remember, recall, connections, forget and update.     *)
(*                                                                         *)
(* Python values are modelled as follows.                                  *)
(*   - a node id (uuid4 string) is a positive integer, generated in order; *)
(*   - a string is a sequence of one-character strings;                    *)
(*   - a list is a sequence;                                               *)
(*   - an optional argument is a sequence of length at most one: None is   *)
(*     <<>> and a given value v is <<v>>, so that an omitted list (<<>>)   *)
(*     is distinct from an empty list (<< <<>> >>).                        *)
(***************************************************************************)
EXTENDS Integers, Sequences, FiniteSets, Bags, TLC

VARIABLES
    nodes,      \* the nodes table: id -> row, DOMAIN nodes = existing ids
    fts,        \* the nodes_fts index: bag of <<rowid, content>> entries
    nextId,     \* number of ids uuid.uuid4() has produced so far
    clock,      \* datetime.now(timezone.utc), as a logical time
    last,       \* the call that completed last (operation and arguments)
    ret,        \* what that call returned
    threads,    \* SpecConc: each caller's position in its call, and its locals
    stale,      \* SpecConc: a back-link was written from an outdated read
    appeared,   \* history: id -> number of recall and connections results
                \* the node has been returned in since remember created it
    stdin,      \* server.py: the lines main has read from sys.stdin
    stdout,     \* server.py: the responses main has written to sys.stdout
    running,    \* server.py: the loop of main has not been left
    AUTH_TOKEN, \* server_remote.py: the configured token, "" when unset
    http        \* server_remote.py: the answer to the last POST

storeVars == <<nodes, fts, nextId, clock, last, ret, threads, stale, appeared>>
serverVars == <<stdin, stdout, running, AUTH_TOKEN, http>>
vars == <<storeVars, serverVars>>

---------------------------------------------------------------------------
(* Bounds of the model. *)

MaxNodes == 2       \* nodes created in one behaviour of Spec
MaxGraph == 3       \* nodes created in one behaviour of SpecLinks
MaxLinks == 2       \* length of a links argument in SpecLinks
MaxConc == 3        \* nodes created in one behaviour of SpecConc
MaxAccess == 1      \* cap on access_count in Spec and SpecRecall
MaxVisits == 2      \* cap on access_count in SpecTraverse and SpecAccess
MaxClock == 1       \* cap on the logical time
MaxDepth == 2       \* largest depth argument of connections
MaxRecall == 3      \* nodes created in one behaviour of SpecRecall
MaxQuery == 3       \* length of a query string in SpecQuery
MaxLines == 3       \* lines main reads in one behaviour of SpecStdio

---------------------------------------------------------------------------
(* Python helpers. *)

None == <<>>
Some(v) == <<v>>
IsNone(o) == Len(o) = 0
Val(o) == o[1]

Range(s) == {s[i] : i \in 1..Len(s)}

SeqsUpTo(S, n) == UNION {[1..k -> S] : k \in 0..n}

\* list.pop(): removes the last entry, whatever it is
ListPop(s, x) == SubSeq(s, 1, Len(s) - 1)

\* list.remove(x): removes the first occurrence of x
ListRemove(s, x) ==
    LET i == CHOOSE k \in 1..Len(s) : s[k] = x /\ \A j \in 1..(k-1) : s[j] # x
    IN  SubSeq(s, 1, i-1) \o SubSeq(s, i+1, Len(s))

\* the largest element of a non-empty set of integers
SetMax(S) == CHOOSE m \in S : \A x \in S : x <= m

---------------------------------------------------------------------------
(* The database: the nodes table and the index the triggers maintain. *)

Db(n, f) == [nodes |-> n, fts |-> f]

\* trigger nodes_ai: AFTER INSERT ON nodes
nodes_ai(f, new) == f (+) SetToBag({<<new.rowid, new.content>>})

\* trigger nodes_ad: AFTER DELETE ON nodes
nodes_ad(f, old) == f (-) SetToBag({<<old.rowid, old.content>>})

\* nodes_au without its 'delete' command: the old entry stays in the index
nodes_au_keep_old(f, old, new) ==
    f (+) SetToBag({<<new.rowid, new.content>>})

\* trigger nodes_au: AFTER UPDATE ON nodes (any column)
nodes_au(f, old, new) ==
    (f (-) SetToBag({<<old.rowid, old.content>>}))
        (+) SetToBag({<<new.rowid, new.content>>})

\* the rowid sqlite gives a row inserted into a table without AUTOINCREMENT
NewRowid(n) ==
    IF DOMAIN n = {} THEN 1 ELSE SetMax({n[i].rowid : i \in DOMAIN n}) + 1

\* INSERT INTO nodes (...) VALUES (...)
SqlInsert(d, row) ==
    LET new == [row EXCEPT !.rowid = NewRowid(d.nodes)]
    IN  Db([i \in DOMAIN d.nodes \cup {row.id} |->
                IF i = row.id THEN new ELSE d.nodes[i]],
           nodes_ai(d.fts, new))

\* an UPDATE that also writes the column default of source
SqlUpdateResetSource(d, id, new) ==
    IF id \notin DOMAIN d.nodes THEN d
    ELSE Db([d.nodes EXCEPT ![id] = [new EXCEPT !.source = <<>>]],
            nodes_au(d.fts, d.nodes[id], new))

\* UPDATE nodes SET ... WHERE id = ?   (new is the row after the SET)
SqlUpdate(d, id, new) ==
    IF id \notin DOMAIN d.nodes THEN d
    ELSE Db([d.nodes EXCEPT ![id] = new], nodes_au(d.fts, d.nodes[id], new))

\* a DELETE that removes no row
SqlDeleteNothing(d, id) == d

\* DELETE FROM nodes WHERE id = ?
SqlDelete(d, id) ==
    IF id \notin DOMAIN d.nodes THEN d
    ELSE Db([i \in DOMAIN d.nodes \ {id} |-> d.nodes[i]],
            nodes_ad(d.fts, d.nodes[id]))

Exists(d, id) == id \in DOMAIN d.nodes

---------------------------------------------------------------------------
(* Internal helpers of MemoryStore. *)

\* the list written back without the new id
NotAppended(links, source_id) == links

\* links.append(source_id)
Appended(links, source_id) == Append(links, source_id)

\* a back-link write that counts as an access of the target
_add_back_link_counted(d, target_id, source_id) ==
    IF ~Exists(d, target_id) THEN d
    ELSE SqlUpdate(d, target_id,
            [d.nodes[target_id] EXCEPT
                !.links = IF source_id \in Range(@) THEN @
                          ELSE Append(@, source_id),
                !.access_count = @ + 1])

\* _add_back_link(target_id, source_id); the returned flag is never used
_add_back_link(d, target_id, source_id) ==
    IF ~Exists(d, target_id) THEN d
    ELSE LET links == d.nodes[target_id].links
         IN  IF source_id \notin Range(links)
             THEN SqlUpdate(d, target_id,
                     [d.nodes[target_id] EXCEPT !.links = Appended(links, source_id)])
             ELSE d

\* _remove_back_link(target_id, source_id)
_remove_back_link(d, target_id, source_id) ==
    IF ~Exists(d, target_id) THEN d
    ELSE LET links == d.nodes[target_id].links
         IN  IF source_id \in Range(links)
             THEN SqlUpdate(d, target_id,
                     [d.nodes[target_id] EXCEPT !.links = ListRemove(links, source_id)])
             ELSE d

\* for link_id in targets: self._add_back_link(link_id, source_id)
RECURSIVE AddBackLinks(_, _, _)
AddBackLinks(d, targets, source_id) ==
    IF targets = <<>> THEN d
    ELSE AddBackLinks(_add_back_link(d, Head(targets), source_id),
                      Tail(targets), source_id)

\* the source's id is taken out of every node that lists it, linked from
\* the source or not
RemoveEverywhere(d, targets, source_id) ==
    [d EXCEPT !.nodes = [i \in DOMAIN d.nodes |->
        [d.nodes[i] EXCEPT !.links = SelectSeq(@, LAMBDA e : e # source_id)]]]

\* for link_id in targets: self._remove_back_link(link_id, source_id)
RECURSIVE RemoveBackLinks(_, _, _)
RemoveBackLinks(d, targets, source_id) ==
    IF targets = <<>> THEN d
    ELSE RemoveBackLinks(_remove_back_link(d, Head(targets), source_id),
                         Tail(targets), source_id)

\* a Python set iterated as a list: the targets are distinct, each call
\* touches only its own target, so every iteration order gives the same result
RECURSIVE SetToSeq(_)
SetToSeq(S) ==
    IF S = {} THEN <<>>
    ELSE LET x == CHOOSE y \in S : \A z \in S : y <= z
         IN  <<x>> \o SetToSeq(S \ {x})

\* access_count = 1 where access_count = access_count + 1 is due
RECURSIVE _update_access_flag(_, _, _)
_update_access_flag(d, node_ids, now) ==
    IF node_ids = <<>> THEN d
    ELSE LET nid == Head(node_ids)
             d1 == IF Exists(d, nid)
                   THEN SqlUpdate(d, nid,
                          [d.nodes[nid] EXCEPT !.last_accessed = now,
                                               !.access_count = 1])
                   ELSE d
         IN  _update_access_flag(d1, Tail(node_ids), now)

\* no id is counted
_update_access_none(d, node_ids, now) == d

\* only the first id of node_ids is counted
_update_access_first(d, node_ids, now) ==
    IF node_ids = <<>> \/ ~Exists(d, Head(node_ids)) THEN d
    ELSE SqlUpdate(d, Head(node_ids),
                   [d.nodes[Head(node_ids)] EXCEPT !.last_accessed = now,
                                                   !.access_count = @ + 1])

\* _update_access(node_ids)
RECURSIVE _update_access(_, _, _)
_update_access(d, node_ids, now) ==
    IF node_ids = <<>> THEN d
    ELSE LET nid == Head(node_ids)
             d1 == IF Exists(d, nid)
                   THEN SqlUpdate(d, nid,
                          [d.nodes[nid] EXCEPT !.last_accessed = now,
                                               !.access_count = @ + 1])
                   ELSE d
         IN  _update_access(d1, Tail(node_ids), now)

\* _get_node(node_id): the row as a dict, or None
_get_node(d, node_id) ==
    IF Exists(d, node_id) THEN Some(d.nodes[node_id]) ELSE None

---------------------------------------------------------------------------
(* Strings, and the full-text query path of recall. *)

Space == " "

\* str.split(): the maximal runs of non-whitespace characters
RECURSIVE Split(_)
Split(s) ==
    IF s = <<>> THEN <<>>
    ELSE IF Head(s) = Space THEN Split(Tail(s))
    ELSE LET n == CHOOSE k \in 1..Len(s) :
                     /\ \A j \in 1..k : s[j] # Space
                     /\ (k = Len(s) \/ s[k+1] = Space)
         IN  <<SubSeq(s, 1, n)>> \o Split(SubSeq(s, n+1, Len(s)))

\* " ".join(parts)
RECURSIVE Join(_)
Join(parts) ==
    IF parts = <<>> THEN <<>>
    ELSE IF Len(parts) = 1 THEN Head(parts)
    ELSE Head(parts) \o <<Space>> \o Join(Tail(parts))

Quote == "\""

\* _sanitize_fts_query(query)
_sanitize_fts_query(query) ==
    LET tokens == Split(query)
    IN  Join([i \in 1..Len(tokens) |-> <<Quote>> \o tokens[i] \o <<Quote>>])

\* the characters the unicode61 tokenizer (under porter) makes tokens of;
\* every other character separates tokens
Letters == {"a", "b"}

\* the tokenizer of nodes_fts (tokenize='porter'): maximal runs of token
\* characters; the porter stemmer passes tokens shorter than 3 through
RECURSIVE Tokenize(_)
Tokenize(s) ==
    IF s = <<>> THEN <<>>
    ELSE IF Head(s) \notin Letters THEN Tokenize(Tail(s))
    ELSE LET n == CHOOSE k \in 1..Len(s) :
                     /\ \A j \in 1..k : s[j] \in Letters
                     /\ (k = Len(s) \/ s[k+1] \notin Letters)
         IN  <<SubSeq(s, 1, n)>> \o Tokenize(SubSeq(s, n+1, Len(s)))

\* FTS5 query lexer, a quoted string: s is the text after the opening quote;
\* "" inside the string is an escaped quote; no closing quote is an error
RECURSIVE Fts5String(_, _)
Fts5String(s, acc) ==
    IF s = <<>> THEN [ok |-> FALSE, text |-> acc, rest |-> <<>>]
    ELSE IF Head(s) # Quote THEN Fts5String(Tail(s), Append(acc, Head(s)))
    ELSE IF Len(s) >= 2 /\ s[2] = Quote
         THEN Fts5String(Tail(Tail(s)), Append(acc, Quote))
    ELSE [ok |-> TRUE, text |-> acc, rest |-> Tail(s)]

\* FTS5 query lexer: the phrases of an expression made of quoted strings and
\* barewords (implicit AND); <<"error">> marks a syntax error
RECURSIVE Fts5Lex(_)
Fts5Lex(s) ==
    IF s = <<>> THEN <<>>
    ELSE IF Head(s) = Space THEN Fts5Lex(Tail(s))
    ELSE IF Head(s) = Quote THEN
        LET r == Fts5String(Tail(s), <<>>)
        IN  IF r.ok THEN <<[ok |-> TRUE, text |-> r.text]>> \o Fts5Lex(r.rest)
            ELSE <<[ok |-> FALSE, text |-> <<>>]>>
    ELSE IF Head(s) \in Letters THEN
        LET n == CHOOSE k \in 1..Len(s) :
                     /\ \A j \in 1..k : s[j] \in Letters
                     /\ (k = Len(s) \/ s[k+1] \notin Letters)
        IN  <<[ok |-> TRUE, text |-> SubSeq(s, 1, n)]>>
                \o Fts5Lex(SubSeq(s, n+1, Len(s)))
    ELSE <<[ok |-> FALSE, text |-> <<>>]>>

\* the parsed MATCH expression: a syntax error (sqlite3.OperationalError), or
\* the phrases to be matched, each tokenized like the content
Fts5Parse(s) ==
    LET toks == Fts5Lex(s)
    IN  IF toks = <<>> \/ \E i \in 1..Len(toks) : ~toks[i].ok
        THEN [ok |-> FALSE, phrases |-> <<>>]
        ELSE [ok |-> TRUE,
              phrases |-> [i \in 1..Len(toks) |-> Tokenize(toks[i].text)]]

\* phrase occurs in doc as a run of consecutive tokens
PhraseIn(phrase, doc) ==
    \E k \in 0..(Len(doc) - Len(phrase)) :
        \A j \in 1..Len(phrase) : doc[k + j] = phrase[j]

\* nodes_fts MATCH: every phrase that has a term occurs in the content; an
\* expression without any term matches no row
FtsMatch(content, phrases) ==
    /\ \E i \in 1..Len(phrases) : phrases[i] # <<>>
    /\ \A i \in 1..Len(phrases) :
          phrases[i] # <<>> => PhraseIn(phrases[i], Tokenize(content))

---------------------------------------------------------------------------
(* What a call returns, and the record of the call. *)

\* status "ok": rows holds the returned record(s) (dist the distance of each
\* row of a connections result, deleted the id forget acknowledges);
\* status "none": the call returned None; "error": it raised
Ret(status, rows, dist, deleted) ==
    [status |-> status, rows |-> rows, dist |-> dist, deleted |-> deleted]

Call(op, node_id, content, tags, links, query, limit, depth) ==
    [op |-> op, node_id |-> node_id, content |-> content, tags |-> tags,
     links |-> links, query |-> query, limit |-> limit, depth |-> depth]

NoCall == Call("init", 0, None, None, None, <<>>, 0, 0)

\* an empty list returned where None is due
EmptyList == Ret("ok", <<>>, <<>>, 0)

\* return None
NotFound == Ret("none", <<>>, <<>>, 0)

\* a truthiness test where "is not None" is due: an empty list counts as omitted
Truthy(o) == ~IsNone(o) /\ Val(o) # <<>>

\* x is not None
Given(o) == ~IsNone(o)

\* x or []
OrEmpty(o) == IF IsNone(o) \/ Val(o) = <<>> THEN <<>> ELSE Val(o)

\* remember without the existence check on the requested ids
AllLinks(d, links) == links

\* the validated links of remember: [l for l in links if _get_node(l)]
ValidLinks(d, links) ==
    SelectSeq(links, LAMBDA l : ~IsNone(_get_node(d, l)))

\* update without the check for the node's own id
ValidNewWithSelf(d, node_id, links) ==
    SelectSeq(links, LAMBDA l : ~IsNone(_get_node(d, l)))

\* the validated links of update: own id and unknown ids skipped
ValidNew(d, node_id, links) ==
    SelectSeq(links, LAMBDA l : l # node_id /\ ~IsNone(_get_node(d, l)))

---------------------------------------------------------------------------
(* The public API. *)

\* remember(content, tags, links, source)
rememberDb(d, node_id, now, content, tags, links, source) ==
    LET valid_links == ValidLinks(d, OrEmpty(links))
        row == [rowid |-> 0, id |-> node_id, content |-> content,
                tags |-> OrEmpty(tags), links |-> valid_links,
                source |-> source, created_at |-> now,
                last_accessed |-> now, access_count |-> 0]
    IN  AddBackLinks(SqlInsert(d, row), valid_links, node_id)

remember(content, tags, links, source) ==
    /\ LET node_id == nextId + 1
           d == rememberDb(Db(nodes, fts), node_id, clock,
                           content, tags, links, source)
       IN  /\ nodes' = d.nodes
           /\ fts' = d.fts
           /\ nextId' = node_id
           /\ ret' = Ret("ok", _get_node(d, node_id), <<>>, 0)
           /\ appeared' = [i \in DOMAIN d.nodes |->
                              IF i = node_id THEN 0 ELSE appeared[i]]
    /\ last' = Call("remember", 0, Some(content), tags, links, <<>>, 0, 0)
    /\ UNCHANGED <<clock, threads, stale>>

\* forget(node_id)
forgetDb(d, node_id) ==
    SqlDelete(RemoveBackLinks(d, d.nodes[node_id].links, node_id), node_id)

forget(node_id) ==
    /\ IF IsNone(_get_node(Db(nodes, fts), node_id))
       THEN /\ ret' = NotFound
            /\ UNCHANGED <<nodes, fts, appeared>>
       ELSE LET d == forgetDb(Db(nodes, fts), node_id)
            IN  /\ nodes' = d.nodes
                /\ fts' = d.fts
                /\ ret' = Ret("ok", <<>>, <<>>, node_id)
                /\ appeared' = [i \in DOMAIN d.nodes |-> appeared[i]]
    /\ last' = Call("forget", node_id, None, None, None, <<>>, 0, 0)
    /\ UNCHANGED <<nextId, clock, threads, stale>>

\* update(node_id, content, tags, links), for an existing node_id
updateDb(d, node_id, content, tags, links) ==
    LET node == d.nodes[node_id]
        d1 == IF Given(content)
              THEN SqlUpdate(d, node_id,
                             [d.nodes[node_id] EXCEPT !.content = Val(content)])
              ELSE d
        d2 == IF Given(tags)
              THEN SqlUpdate(d1, node_id,
                             [d1.nodes[node_id] EXCEPT !.tags = Val(tags)])
              ELSE d1
    IN  IF ~Given(links) THEN d2
        ELSE LET old_links == Range(node.links)
                 valid_new == ValidNew(d2, node_id, Val(links))
                 new_links == Range(valid_new)
                 d3 == RemoveBackLinks(d2, SetToSeq(old_links \ new_links), node_id)
                 d4 == AddBackLinks(d3, SetToSeq(new_links \ old_links), node_id)
             IN  SqlUpdate(d4, node_id,
                           [d4.nodes[node_id] EXCEPT !.links = valid_new])

update(node_id, content, tags, links) ==
    /\ IF IsNone(_get_node(Db(nodes, fts), node_id))
       THEN /\ ret' = NotFound
            /\ UNCHANGED <<nodes, fts>>
       ELSE LET d == updateDb(Db(nodes, fts), node_id, content, tags, links)
            IN  /\ nodes' = d.nodes
                /\ fts' = d.fts
                /\ ret' = Ret("ok", _get_node(d, node_id), <<>>, 0)
    /\ last' = Call("update", node_id, content, tags, links, <<>>, 0, 0)
    /\ UNCHANGED <<nextId, clock, threads, stale, appeared>>

\* the ids of the table in rowid order (SELECT * FROM nodes scans by rowid)
RECURSIVE ByRowid(_, _)
ByRowid(n, S) ==
    IF S = {} THEN <<>>
    ELSE LET i == CHOOSE x \in S : \A y \in S : n[x].rowid <= n[y].rowid
         IN  <<i>> \o ByRowid(n, S \ {i})

\* number of index entries joined to row i (nodes.rowid = nodes_fts.rowid)
\* whose indexed content matches
RECURSIVE MatchCount(_, _, _, _)
MatchCount(d, i, phrases, E) ==
    IF E = {} THEN 0
    ELSE LET e == CHOOSE x \in E : TRUE
         IN  (IF e[1] = d.nodes[i].rowid /\ FtsMatch(e[2], phrases)
              THEN CopiesIn(e, d.fts) ELSE 0)
             + MatchCount(d, i, phrases, E \ {e})

RECURSIVE SumOver(_, _)
SumOver(f, S) ==
    IF S = {} THEN 0
    ELSE LET x == CHOOSE y \in S : TRUE IN f[x] + SumOver(f, S \ {x})

\* the results of SELECT nodes.* FROM nodes_fts JOIN nodes ... WHERE nodes_fts
\* MATCH ? ORDER BY rank: the joined rows in some order; the bm25 rank is
\* not modelled, so every order is allowed
FtsCandidates(d, phrases) ==
    LET cnt == [i \in DOMAIN d.nodes |->
                    MatchCount(d, i, phrases, BagToSet(d.fts))]
        total == SumOver(cnt, DOMAIN d.nodes)
    IN  {c \in [1..total -> DOMAIN d.nodes] :
            \A i \in DOMAIN d.nodes :
                Cardinality({k \in 1..total : c[k] = i}) = cnt[i]}

\* candidates, not cut
SliceAll(s, limit) == s

\* candidates[:limit]
SliceTo(s, limit) ==
    IF limit >= 0
    THEN SubSeq(s, 1, IF limit < Len(s) THEN limit ELSE Len(s))
    ELSE SubSeq(s, 1, IF Len(s) + limit > 0 THEN Len(s) + limit ELSE 0)

\* any(t in n["tags"] for t in tags): one requested tag is enough
HasSomeTag(row, tags) == \E k \in 1..Len(tags) : tags[k] \in Range(row.tags)

\* all(t in n["tags"] for t in tags)
HasTags(row, tags) == \A k \in 1..Len(tags) : tags[k] \in Range(row.tags)

\* [self._get_node(nid) for nid in node_ids], over existing ids
Rows(d, node_ids) == [k \in 1..Len(node_ids) |-> d.nodes[node_ids[k]]]

\* the part of recall after the candidates are fetched
recallIds(d, candidates, tags, limit) ==
    SliceTo(IF tags # <<>>
            THEN SelectSeq(candidates, LAMBDA i : HasTags(d.nodes[i], tags))
            ELSE candidates,
            limit)

\* the history of results: one more appearance for every node in rows
Appear(rows) ==
    [i \in DOMAIN appeared |->
        IF \E k \in 1..Len(rows) : rows[k].id = i
        THEN appeared[i] + 1 ELSE appeared[i]]

\* an early return that is never taken
NeverEmpty(query, tags) == FALSE

\* if not query and not tags: return []
NoCriteria(query, tags) == query = <<>> /\ tags = <<>>

\* recall(query, tags, limit)
recall(query, tags, limit) ==
    /\ last' = Call("recall", 0, None, tags, None, query, limit, 0)
    /\ UNCHANGED <<nextId, clock, threads, stale>>
    /\ IF NoCriteria(query, OrEmpty(tags))
       THEN /\ ret' = Ret("ok", <<>>, <<>>, 0)
            /\ UNCHANGED <<nodes, fts, appeared>>
       ELSE IF query # <<>> /\ ~Fts5Parse(_sanitize_fts_query(query)).ok
       THEN /\ ret' = Ret("error", <<>>, <<>>, 0)
            /\ UNCHANGED <<nodes, fts, appeared>>
       ELSE \E candidates \in
                IF query # <<>>
                THEN FtsCandidates(Db(nodes, fts),
                        Fts5Parse(_sanitize_fts_query(query)).phrases)
                ELSE {ByRowid(nodes, DOMAIN nodes)} :
            LET node_ids == recallIds(Db(nodes, fts), candidates,
                                      OrEmpty(tags), limit)
                d == _update_access(Db(nodes, fts), node_ids, clock)
            IN  /\ nodes' = d.nodes
                /\ fts' = d.fts
                /\ ret' = Ret("ok", Rows(d, node_ids), <<>>, 0)
                /\ appeared' = Appear(Rows(d, node_ids))

\* every link counts as new, visited or not
AnyLink(link_id, visited) == TRUE

\* if link_id not in visited
Unvisited(link_id, visited) == link_id \notin DOMAIN visited

\* for link_id in node["links"]: if link_id not in visited: ...
RECURSIVE Discover(_, _, _)
Discover(links, st, next_depth) ==
    IF links = <<>> THEN st
    ELSE LET link_id == Head(links)
         IN  Discover(Tail(links),
                IF Unvisited(link_id, st.visited)
                THEN [visited |-> [x \in DOMAIN st.visited \cup {link_id} |->
                                      IF x = link_id THEN next_depth
                                      ELSE st.visited[x]],
                      queue |-> Append(st.queue, <<link_id, next_depth>>)]
                ELSE st,
                next_depth)

\* a node found at the depth limit is expanded as well
WithinOrAt(current_depth, depth) == current_depth <= depth

\* a negative depth read as "no limit"
WithinOrUnlimited(current_depth, depth) ==
    current_depth < depth \/ depth < 0

\* if current_depth < depth
Within(current_depth, depth) == current_depth < depth

\* the while loop of connections: the (id, distance) pairs in visit order
RECURSIVE Bfs(_, _, _, _)
Bfs(d, st, order, depth) ==
    IF st.queue = <<>> THEN order
    ELSE LET current_id == Head(st.queue)[1]
             current_depth == Head(st.queue)[2]
             node == _get_node(d, current_id)
             st1 == [st EXCEPT !.queue = Tail(st.queue)]
         IN  IF IsNone(node) THEN Bfs(d, st1, order, depth)
             ELSE Bfs(d,
                      IF Within(current_depth, depth)
                      THEN Discover(Val(node).links, st1, current_depth + 1)
                      ELSE st1,
                      Append(order, <<current_id, current_depth>>),
                      depth)

connectionsOrder(d, node_id, depth) ==
    Bfs(d, [visited |-> [x \in {node_id} |-> 0], queue |-> << <<node_id, 0>> >>],
        <<>>, depth)

\* connections(node_id, depth)
connections(node_id, depth) ==
    /\ last' = Call("connections", node_id, None, None, None, <<>>, 0, depth)
    /\ UNCHANGED <<nextId, clock, threads, stale>>
    /\ IF IsNone(_get_node(Db(nodes, fts), node_id))
       THEN /\ ret' = NotFound
            /\ UNCHANGED <<nodes, fts, appeared>>
       ELSE LET order == connectionsOrder(Db(nodes, fts), node_id, depth)
                node_ids == [k \in 1..Len(order) |-> order[k][1]]
                d == _update_access(Db(nodes, fts), node_ids, clock)
            IN  /\ nodes' = d.nodes
                /\ fts' = d.fts
                /\ ret' = Ret("ok", Rows(d, node_ids),
                              [k \in 1..Len(order) |-> order[k][2]], 0)
                /\ appeared' = Appear(Rows(d, node_ids))

\* time passes between calls
Tick ==
    /\ clock < MaxClock
    /\ clock' = clock + 1
    /\ UNCHANGED <<nodes, fts, nextId, last, ret, threads, stale, appeared>>

---------------------------------------------------------------------------
(* Callers that share the store: remember and forget statement by          *)
(* statement. Each _get_node and each conn.execute is one step; nothing in *)
(* store.py holds a lock from the read of a neighbour to its write-back.   *)

Threads == {1, 2}

\* the locals of a call: those of remember and forget, then those of
\* connections and recall (depth, visited, queue, order, now, and call, the
\* arguments), then two notes on the call: prior, the access counts it found
\* when it began, and overlap, the number of calls of the other caller that
\* were in progress at some time during this one (2 for two or more)
Idle == [pc |-> "idle", op |-> "none", node_id |-> 0, valid |-> <<>>,
         todo |-> <<>>, target |-> 0, read |-> <<>>,
         depth |-> 0, visited |-> <<>>, queue |-> <<>>, order |-> <<>>,
         now |-> 0, call |-> NoCall, prior |-> <<>>, overlap |-> 0]

Goto(t, pc, local) == threads' = [threads EXCEPT ![t] = [local EXCEPT !.pc = pc]]

\* the UPDATE nodes SET links = ? of a back-link helper, given the list the
\* helper read before and changed
WriteBack(t, links) ==
    LET me == threads[t]
        d == SqlUpdate(Db(nodes, fts), me.target,
                IF Exists(Db(nodes, fts), me.target)
                THEN [nodes[me.target] EXCEPT !.links = links]
                ELSE <<>>)
    IN  /\ nodes' = d.nodes
        /\ fts' = d.fts
        /\ stale' = (stale \/ me.target \notin DOMAIN nodes
                           \/ nodes[me.target].links # me.read)

\* remember, lines 111-115: the call begins, uuid4() gives the id
remember_begin(t, links) ==
    /\ threads[t].pc = "idle"
    /\ nextId' = nextId + 1
    /\ Goto(t, "r_validate",
            [Idle EXCEPT !.op = "remember", !.node_id = nextId + 1,
                         !.todo = links])
    /\ UNCHANGED <<nodes, fts, clock, last, ret, stale, appeared>>

\* remember, lines 118-122: one iteration of the validation loop
remember_validate(t) ==
    LET me == threads[t]
    IN  /\ me.pc = "r_validate"
        /\ me.todo # <<>>
        /\ Goto(t, "r_validate",
                [me EXCEPT !.todo = Tail(me.todo),
                           !.valid = IF IsNone(_get_node(Db(nodes, fts), Head(me.todo)))
                                     THEN @ ELSE Append(@, Head(me.todo))])
        /\ UNCHANGED <<nodes, fts, nextId, clock, last, ret, stale, appeared>>

\* remember, lines 124-128: the INSERT
remember_insert(t) ==
    LET me == threads[t]
        d == SqlInsert(Db(nodes, fts),
                [rowid |-> 0, id |-> me.node_id, content |-> <<"a">>,
                 tags |-> <<>>, links |-> me.valid, source |-> <<>>,
                 created_at |-> clock, last_accessed |-> clock,
                 access_count |-> 0])
    IN  /\ me.pc = "r_validate"
        /\ me.todo = <<>>
        /\ nodes' = d.nodes
        /\ fts' = d.fts
        /\ Goto(t, "r_back", [me EXCEPT !.todo = me.valid])
        /\ UNCHANGED <<nextId, clock, last, ret, stale, appeared>>

\* _add_back_link, lines 85-89: the read of the neighbour
add_back_link_read(t) ==
    LET me == threads[t]
        node == _get_node(Db(nodes, fts), Head(me.todo))
    IN  /\ me.pc = "r_back"
        /\ me.todo # <<>>
        /\ IF IsNone(node) \/ me.node_id \in Range(Val(node).links)
           THEN Goto(t, "r_back", [me EXCEPT !.todo = Tail(me.todo)])
           ELSE Goto(t, "r_write",
                     [me EXCEPT !.todo = Tail(me.todo),
                                !.target = Head(me.todo),
                                !.read = Val(node).links])
        /\ UNCHANGED <<nodes, fts, nextId, clock, last, ret, stale, appeared>>

\* _add_back_link, lines 90-94: the write-back
add_back_link_write(t) ==
    LET me == threads[t]
    IN  /\ me.pc = "r_write"
        /\ WriteBack(t, Appended(me.read, me.node_id))
        /\ Goto(t, "r_back", me)
        /\ UNCHANGED <<nextId, clock, last, ret, appeared>>

\* remember, lines 133-134: commit and return
remember_return(t) ==
    LET me == threads[t]
    IN  /\ me.pc = "r_back"
        /\ me.todo = <<>>
        /\ Goto(t, "idle", me)
        /\ UNCHANGED <<nodes, fts, nextId, clock, last, ret, stale, appeared>>

\* forget, lines 203-205: the read of the node
forget_begin(t, node_id) ==
    LET node == _get_node(Db(nodes, fts), node_id)
    IN  /\ threads[t].pc = "idle"
        /\ IF IsNone(node)
           THEN Goto(t, "idle", [Idle EXCEPT !.op = "forget"])
           ELSE Goto(t, "f_back",
                     [Idle EXCEPT !.op = "forget", !.node_id = node_id,
                                  !.todo = Val(node).links])
        /\ UNCHANGED <<nodes, fts, nextId, clock, last, ret, stale, appeared>>

\* _remove_back_link, lines 98-102: the read of the neighbour
remove_back_link_read(t) ==
    LET me == threads[t]
        node == _get_node(Db(nodes, fts), Head(me.todo))
    IN  /\ me.pc = "f_back"
        /\ me.todo # <<>>
        /\ IF IsNone(node) \/ me.node_id \notin Range(Val(node).links)
           THEN Goto(t, "f_back", [me EXCEPT !.todo = Tail(me.todo)])
           ELSE Goto(t, "f_write",
                     [me EXCEPT !.todo = Tail(me.todo),
                                !.target = Head(me.todo),
                                !.read = Val(node).links])
        /\ UNCHANGED <<nodes, fts, nextId, clock, last, ret, stale, appeared>>

\* _remove_back_link, lines 103-107: the write-back
remove_back_link_write(t) ==
    LET me == threads[t]
    IN  /\ me.pc = "f_write"
        /\ WriteBack(t, ListRemove(me.read, me.node_id))
        /\ Goto(t, "f_back", me)
        /\ UNCHANGED <<nextId, clock, last, ret, appeared>>

\* forget, lines 210-212: the DELETE, commit and return
forget_delete(t) ==
    LET me == threads[t]
        d == SqlDelete(Db(nodes, fts), me.node_id)
    IN  /\ me.pc = "f_back"
        /\ me.todo = <<>>
        /\ nodes' = d.nodes
        /\ fts' = d.fts
        /\ Goto(t, "idle", me)
        /\ UNCHANGED <<nextId, clock, last, ret, stale, appeared>>


---------------------------------------------------------------------------
(* connections and recall statement by statement: each turn of the while   *)
(* loop of connections and each UPDATE of _update_access is one step.      *)

Other(t) == CHOOSE u \in Threads : u # t

\* the call of caller t begins with the locals given: both callers count
\* the meeting when the other one is in a call
Begin(t, local) ==
    LET busy == IF threads[Other(t)].pc # "idle" THEN 1 ELSE 0
        counts == [i \in DOMAIN nodes |-> nodes[i].access_count]
    IN  threads' = [u \in Threads |->
            IF u = t
            THEN [local EXCEPT !.prior = counts, !.overlap = busy]
            ELSE [threads[u] EXCEPT !.overlap = IF @ + busy > 2 THEN 2
                                                  ELSE @ + busy]]

\* the call of caller t has returned; its locals are kept as they were
Return(t) == threads' = [threads EXCEPT ![t].pc = "idle"]

\* connections, lines 170-176: the start node is looked up and the queue
\* is set up with it
connections_begin(t, node_id, depth) ==
    /\ threads[t].pc = "idle"
    /\ UNCHANGED <<nodes, fts, nextId, clock, stale, appeared>>
    /\ IF IsNone(_get_node(Db(nodes, fts), node_id))
       THEN /\ last' = Call("connections", node_id, None, None, None,
                            <<>>, 0, depth)
            /\ ret' = NotFound
            /\ UNCHANGED threads
       ELSE /\ Begin(t, [Idle EXCEPT
                    !.pc = "c_loop", !.op = "connections",
                    !.node_id = node_id, !.depth = depth,
                    !.visited = [x \in {node_id} |-> 0],
                    !.queue = << <<node_id, 0>> >>,
                    !.call = Call("connections", node_id, None, None, None,
                                  <<>>, 0, depth)])
            /\ UNCHANGED <<last, ret>>

\* connections, lines 178-189: one turn of the loop, while the queue holds
\* an entry
connections_visit(t) ==
    LET me == threads[t]
        current_id == Head(me.queue)[1]
        current_depth == Head(me.queue)[2]
        node == _get_node(Db(nodes, fts), current_id)
        st1 == [visited |-> me.visited, queue |-> Tail(me.queue)]
        st2 == IF ~IsNone(node) /\ Within(current_depth, me.depth)
               THEN Discover(Val(node).links, st1, current_depth + 1)
               ELSE st1
    IN  /\ me.pc = "c_loop"
        /\ me.queue # <<>>
        /\ Goto(t, "c_loop",
                [me EXCEPT !.visited = st2.visited, !.queue = st2.queue,
                           !.order = IF IsNone(node) THEN @
                                     ELSE Append(@, <<current_id, current_depth>>)])
        /\ UNCHANGED <<nodes, fts, nextId, clock, last, ret, stale, appeared>>

\* connections, lines 178 and 191-192: the queue is empty, the loop is left
\* and _update_access is entered with the ids of order
connections_done(t) ==
    LET me == threads[t]
    IN  /\ me.pc = "c_loop"
        /\ me.queue = <<>>
        /\ Goto(t, "access",
                [me EXCEPT !.todo = [k \in 1..Len(me.order) |-> me.order[k][1]],
                           !.now = clock])
        /\ UNCHANGED <<nodes, fts, nextId, clock, last, ret, stale, appeared>>

\* recall, lines 143-165: the candidates are selected, filtered and cut, and
\* _update_access is entered with their ids
recall_begin(t, query, tags, limit) ==
    /\ threads[t].pc = "idle"
    /\ UNCHANGED <<nodes, fts, nextId, clock, stale, appeared>>
    /\ IF NoCriteria(query, OrEmpty(tags))
       THEN /\ last' = Call("recall", 0, None, tags, None, query, limit, 0)
            /\ ret' = Ret("ok", <<>>, <<>>, 0)
            /\ UNCHANGED threads
       ELSE IF query # <<>> /\ ~Fts5Parse(_sanitize_fts_query(query)).ok
       THEN /\ last' = Call("recall", 0, None, tags, None, query, limit, 0)
            /\ ret' = Ret("error", <<>>, <<>>, 0)
            /\ UNCHANGED threads
       ELSE \E candidates \in
                IF query # <<>>
                THEN FtsCandidates(Db(nodes, fts),
                        Fts5Parse(_sanitize_fts_query(query)).phrases)
                ELSE {ByRowid(nodes, DOMAIN nodes)} :
            LET node_ids == recallIds(Db(nodes, fts), candidates,
                                      OrEmpty(tags), limit)
            IN  /\ Begin(t, [Idle EXCEPT
                        !.pc = "access", !.op = "recall",
                        !.todo = node_ids,
                        !.order = [k \in 1..Len(node_ids) |-> <<node_ids[k], 0>>],
                        !.now = clock,
                        !.call = Call("recall", 0, None, tags, None,
                                      query, limit, 0)])
                /\ UNCHANGED <<last, ret>>

\* the counter is written as one more than a call in progress found it
SqlIncrementFound(d, nid, now) ==
    LET found == {threads[t].prior[nid] :
                    t \in {u \in Threads : /\ threads[u].pc # "idle"
                                           /\ nid \in DOMAIN threads[u].prior}}
        least == CHOOSE c \in found : \A e \in found : c <= e
    IN  IF ~Exists(d, nid) \/ found = {} THEN d
        ELSE SqlUpdate(d, nid,
                [d.nodes[nid] EXCEPT !.last_accessed = now,
                                     !.access_count = least + 1])

\* UPDATE nodes SET last_accessed = ?, access_count = access_count + 1
\* WHERE id = ?
SqlIncrement(d, nid, now) ==
    IF ~Exists(d, nid) THEN d
    ELSE SqlUpdate(d, nid,
            [d.nodes[nid] EXCEPT !.last_accessed = now,
                                 !.access_count = @ + 1])

\* _update_access, lines 77-81: one turn of the loop over node_ids
access_update(t) ==
    LET me == threads[t]
        d == SqlIncrement(Db(nodes, fts), Head(me.todo), me.now)
    IN  /\ me.pc = "access"
        /\ me.todo # <<>>
        /\ nodes' = d.nodes
        /\ fts' = d.fts
        /\ Goto(t, "access", [me EXCEPT !.todo = Tail(me.todo)])
        /\ UNCHANGED <<nextId, clock, last, ret, stale, appeared>>

\* the (id, distance) pairs of order whose node is still there
RECURSIVE Found(_, _)
Found(d, order) ==
    IF order = <<>> THEN <<>>
    ELSE (IF Exists(d, Head(order)[1]) THEN <<Head(order)>> ELSE <<>>)
         \o Found(d, Tail(order))

\* None as an entry of a returned list: written as a record of the shape
\* of a node with the id 0, which no node has
NoneEntry ==
    [rowid |-> 0, id |-> 0, content |-> <<>>, tags |-> <<>>, links |-> <<>>,
     source |-> <<>>, created_at |-> 0, last_accessed |-> 0,
     access_count |-> 0]

\* [self._get_node(nid) for nid in node_ids]
Reread(d, node_ids) ==
    [k \in 1..Len(node_ids) |->
        IF Exists(d, node_ids[k]) THEN d.nodes[node_ids[k]] ELSE NoneEntry]

\* connections, lines 194-200, and recall, line 167: the nodes are read
\* again and returned; connections leaves out an id it does not find
\* (if node), recall returns what _get_node gave for each id
access_return(t) ==
    LET me == threads[t]
        found == Found(Db(nodes, fts), me.order)
        rows == IF me.op = "connections"
                THEN Rows(Db(nodes, fts),
                          [k \in 1..Len(found) |-> found[k][1]])
                ELSE Reread(Db(nodes, fts),
                            [k \in 1..Len(me.order) |-> me.order[k][1]])
    IN  /\ me.pc = "access"
        /\ me.todo = <<>>
        /\ last' = me.call
        /\ ret' = Ret("ok", rows,
                      IF me.op = "connections"
                      THEN [k \in 1..Len(found) |-> found[k][2]] ELSE <<>>,
                      0)
        /\ appeared' = Appear(rows)
        /\ Return(t)
        /\ UNCHANGED <<nodes, fts, nextId, clock, stale>>

---------------------------------------------------------------------------
(* The transports. server.py reads JSON-RPC messages line by line from     *)
(* standard input and writes the responses to standard output;             *)
(* server_remote.py takes one message as the body of each POST. Both hand  *)
(* tools/call to handle_tools_call, which calls the store.                 *)

SERVER_INFO == "flood-memory"
PROTOCOL_VERSION == "2024-11-05"
TOOLS == {"remember", "recall", "connections", "forget", "update"}

\* the argument of json.dumps in tool_result: a string, or a value the
\* store returned
JsonStr(s) == [str |-> s, obj |-> <<>>]
JsonObj(r) == [str |-> "", obj |-> <<r>>]

\* tool_result(data, is_error=False)
tool_result(data, is_error) == [content |-> data, isError |-> is_error]

\* make_response(msg_id, result)
make_response(msg_id, result) ==
    [id |-> msg_id, result |-> <<result>>, error |-> <<>>]

\* make_error(msg_id, code, message)
make_error(msg_id, code, message) ==
    [id |-> msg_id, result |-> <<>>,
     error |-> <<[code |-> code, message |-> message]>>]

\* -32601, the JSON-RPC code of "Method not found"
METHOD_NOT_FOUND == -32601

\* args.get("limit", 10) and args.get("depth", 1)
DefaultLimit == 10
DefaultDepth == 1

\* d.get(key, default)
Get(o, default) == IF IsNone(o) THEN default ELSE Val(o)

\* the "arguments" of a tools/call: a JSON object with some of the keys
\* (None where the key is absent), or a JSON value that is no object
Arguments(node_id, content, tags, links, source, query, limit, depth) ==
    [isdict |-> TRUE, node_id |-> node_id, content |-> content, tags |-> tags,
     links |-> links, source |-> source, query |-> query, limit |-> limit,
     depth |-> depth]

NoArguments == Arguments(None, None, None, None, None, None, None, None)

\* the "params" of a message: a JSON object, or a JSON value that is no
\* object; name is "" where the key is absent (params.get("name") is None)
Params(name, arguments) ==
    [isdict |-> TRUE, name |-> name, arguments |-> arguments]

\* msg.get("params", {})
NoParams == Params("", NoArguments)

\* a line of input or the body of a request: empty after strip ("blank"),
\* text json.loads rejects ("invalid"), a JSON value that is no object
\* ("value"), or a JSON object ("object") with its id (None where absent or
\* null), its method and its params
Line(kind, id, method, params) ==
    [kind |-> kind, id |-> id, method |-> method, params |-> params]

\* an early return that is never taken: the store is asked whatever came
NeverMissing(query, tags) == FALSE

\* if not query and not tags: return tool_result("At least one of ...")
MissingCriteria(query, tags) == query = <<>> /\ tags = <<>>

\* no result counts as absent
NeverAbsent(result) == FALSE

\* if result is None: return tool_result("Node not found", is_error=True)
Absent(result) == result.status = "none"

\* handle_tools_call(params, store) raises: params.get and the default of
\* "arguments" are outside the try
handle_tools_call_raises(params) == ~params.isdict

\* handle_tools_call(params, store), when it does not raise: the call of
\* the store it makes, if it makes one
handle_tools_call(params) ==
    LET name == params.name
        args == params.arguments
    IN  IF name \notin TOOLS \/ ~args.isdict
        THEN UNCHANGED storeVars
        ELSE CASE name = "remember" ->
                    IF IsNone(args.content)
                    THEN UNCHANGED storeVars
                    ELSE remember(Val(args.content),
                                  Some(Get(args.tags, <<>>)),
                                  Some(Get(args.links, <<>>)),
                                  Get(args.source, <<>>))
               [] name = "recall" ->
                    LET query == Get(args.query, <<>>)
                        tags == Get(args.tags, <<>>)
                    IN  IF MissingCriteria(query, tags)
                        THEN UNCHANGED storeVars
                        ELSE recall(query, Some(tags),
                                    Get(args.limit, DefaultLimit))
               [] name = "connections" ->
                    IF IsNone(args.node_id)
                    THEN UNCHANGED storeVars
                    ELSE connections(Val(args.node_id),
                                     Get(args.depth, DefaultDepth))
               [] name = "forget" ->
                    IF IsNone(args.node_id)
                    THEN UNCHANGED storeVars
                    ELSE forget(Val(args.node_id))
               [] name = "update" ->
                    IF IsNone(args.node_id)
                    THEN UNCHANGED storeVars
                    ELSE update(Val(args.node_id), args.content,
                                args.tags, args.links)

\* handle_tools_call(params, store), when it does not raise: the value it
\* returns, result being what the store returned to the call it made
handle_tools_call_result(params, result) ==
    LET name == params.name
        args == params.arguments
        \* except Exception as e: return tool_result(str(e), is_error=True)
        Raised == tool_result(JsonStr("exception"), TRUE)
        Returned ==
            IF result.status = "error" THEN Raised
            ELSE tool_result(JsonObj(result), FALSE)
        ReturnedIfFound ==
            IF result.status = "error" THEN Raised
            ELSE IF Absent(result)
            THEN tool_result(JsonStr("Node not found"), TRUE)
            ELSE tool_result(JsonObj(result), FALSE)
    IN  IF name \notin TOOLS
        THEN tool_result(JsonStr("Unknown tool"), TRUE)
        ELSE IF ~args.isdict
        THEN Raised
        ELSE CASE name = "remember" ->
                    IF IsNone(args.content) THEN Raised ELSE Returned
               [] name = "recall" ->
                    IF MissingCriteria(Get(args.query, <<>>),
                                       Get(args.tags, <<>>))
                    THEN tool_result(
                            JsonStr("At least one of query or tags is required"),
                            TRUE)
                    ELSE Returned
               [] name \in {"connections", "forget", "update"} ->
                    IF IsNone(args.node_id) THEN Raised ELSE ReturnedIfFound

\* the routing main and do_POST share raises: the call of
\* handle_tools_call is in no try
RouteRaises(msg) ==
    msg.method = "tools/call" /\ handle_tools_call_raises(msg.params)

\* the routing main and do_POST share, when it does not raise: what it
\* does to the store
Route(msg) ==
    IF msg.method = "tools/call"
    THEN handle_tools_call(msg.params)
    ELSE UNCHANGED storeVars

\* the routing main and do_POST share, when it does not raise: resp, result
\* being what the store returned to the call made for the message
RouteResponse(msg, result) ==
    LET msg_id == Val(msg.id)
    IN  CASE msg.method = "initialize" ->
               make_response(msg_id,
                   [protocolVersion |-> PROTOCOL_VERSION,
                    serverInfo |-> SERVER_INFO])
          [] msg.method = "ping" -> make_response(msg_id, <<>>)
          [] msg.method = "tools/list" ->
               make_response(msg_id, [tools |-> TOOLS])
          [] msg.method = "tools/call" ->
               make_response(msg_id,
                   handle_tools_call_result(msg.params, result))
          [] OTHER -> make_error(msg_id, METHOD_NOT_FOUND, msg.method)

\* one turn of the loop of main: for line in sys.stdin
main_line(line) ==
    /\ running
    /\ Len(stdin) < MaxLines
    /\ stdin' = Append(stdin, line)
    /\ UNCHANGED <<AUTH_TOKEN, http>>
    /\ IF line.kind \in {"blank", "invalid"}
       THEN \* if not line: continue; except json.JSONDecodeError: continue
            UNCHANGED <<storeVars, stdout, running>>
       ELSE IF line.kind = "value"
       THEN \* msg.get raises AttributeError, which main does not catch
            /\ running' = FALSE
            /\ UNCHANGED <<storeVars, stdout>>
       ELSE IF IsNone(line.id)
       THEN \* if msg_id is None: continue
            UNCHANGED <<storeVars, stdout, running>>
       ELSE IF RouteRaises(line)
       THEN \* params.get raises AttributeError, which nothing catches
            /\ running' = FALSE
            /\ UNCHANGED <<storeVars, stdout>>
       ELSE /\ Route(line)
            /\ stdout' = Append(stdout, RouteResponse(line, ret'))
            /\ running' = running

\* the request do_POST answered last and its answer: status 0 and no body
\* before the first request and when the handler raised before it sent one
Answer(path, auth, msg, status, content_type, body) ==
    [path |-> path, auth |-> auth, msg |-> msg, status |-> status,
     content_type |-> content_type, body |-> body]

NoRequest == Answer("", <<>>, Line("blank", None, "", NoParams), 0, "", <<>>)

Bearer == <<"B", "e", "a", "r", "e", "r", " ">>

\* a gate that looks at the scheme only
_check_auth_scheme(auth) ==
    \/ AUTH_TOKEN = <<>>
    \/ Len(auth) >= Len(Bearer) /\ SubSeq(auth, 1, Len(Bearer)) = Bearer

\* _check_auth(): the value it returns; auth is
\* self.headers.get("Authorization", "")
_check_auth(auth) ==
    \/ AUTH_TOKEN = <<>>
    \/ auth = Bearer \o AUTH_TOKEN

\* do_POST(): path is self.path, auth the Authorization header ("" when
\* absent), accept the Accept header, msg the body read from the request
do_POST(path, auth, accept, msg) ==
    LET Send(status, content_type, body) ==
            http' = Answer(path, auth, msg, status, content_type, body)
    IN  /\ UNCHANGED <<stdin, stdout, running, AUTH_TOKEN>>
        /\ IF path # "/mcp"
           THEN Send(404, "", <<>>) /\ UNCHANGED storeVars
           ELSE IF ~_check_auth(auth)
           THEN /\ Send(401, "application/json", <<"Unauthorized">>)
                /\ UNCHANGED storeVars
           ELSE IF msg.kind \in {"blank", "invalid"}
           THEN /\ Send(400, "application/json", <<"Invalid JSON">>)
                /\ UNCHANGED storeVars
           ELSE IF msg.kind = "value"
           THEN \* msg.get raises AttributeError: nothing is sent
                Send(0, "", <<>>) /\ UNCHANGED storeVars
           ELSE IF IsNone(msg.id)
           THEN Send(202, "", <<>>) /\ UNCHANGED storeVars
           ELSE IF RouteRaises(msg)
           THEN \* params.get raises AttributeError: nothing is sent
                Send(0, "", <<>>) /\ UNCHANGED storeVars
           ELSE /\ Route(msg)
                /\ Send(200,
                        IF accept = "text/event-stream"
                        THEN "text/event-stream"
                        ELSE "application/json",
                        <<RouteResponse(msg, ret')>>)

---------------------------------------------------------------------------
(* The arguments callers pass, and the specifications. *)

Opt(S) == {None} \cup {Some(v) : v \in S}

Contents == {<<"a">>, <<"b">>}
TagLists == {<<>>, <<"x">>}
Queries == {<<>>, <<" ">>, <<"a">>}
Limits == {1, 10}
Depths == 0..MaxDepth

\* counters are capped: a call that counts a node past n is not taken
Capped(n) == \A i \in DOMAIN nodes : nodes[i].access_count <= n

\* MemoryStore.__init__ on a new database file
StoreInit ==
    /\ nodes = <<>>
    /\ fts = EmptyBag
    /\ nextId = 0
    /\ clock = 0
    /\ last = NoCall
    /\ ret = Ret("ok", <<>>, <<>>, 0)
    /\ appeared = <<>>
    /\ threads = [t \in Threads |-> Idle]
    /\ stale = FALSE

\* the transports before the first line and the first request
ServerInit ==
    /\ stdin = <<>>
    /\ stdout = <<>>
    /\ running = TRUE
    /\ http = NoRequest

\* FLOOD_MEMORY_AUTH_TOKEN is unset
Init == StoreInit /\ ServerInit /\ AUTH_TOKEN = <<>>

\* Spec: the five operations called one at a time, on a store of at most
\* MaxNodes nodes; an update changes one field per call. Callers pass the
\* ids the store has produced or may produce, and one it never produces.
Ids == 1..(MaxNodes + 1)
ShortLinkLists == SeqsUpTo(Ids, 1)

Next ==
    \/ \E c \in Contents, t \in {None, Some(<<"x">>)}, l \in Opt(ShortLinkLists) :
          nextId < MaxNodes /\ remember(c, t, l, <<>>) /\ UNCHANGED serverVars
    \/ \E q \in Queries, t \in {None, Some(<<"x">>)}, lim \in Limits :
          recall(q, t, lim) /\ Capped(MaxAccess)' /\ UNCHANGED serverVars
    \/ \E i \in Ids, dp \in Depths : connections(i, dp) /\ Capped(MaxAccess)'
          /\ UNCHANGED serverVars
    \/ \E i \in Ids : forget(i) /\ UNCHANGED serverVars
    \/ \E i \in Ids, c \in Contents : update(i, Some(c), None, None)
          /\ UNCHANGED serverVars
    \/ \E i \in Ids, t \in TagLists : update(i, None, Some(t), None)
          /\ UNCHANGED serverVars
    \/ \E i \in Ids, l \in ShortLinkLists : update(i, None, None, Some(l))
          /\ UNCHANGED serverVars
    \/ Tick /\ UNCHANGED serverVars

Spec == Init /\ [][Next]_vars

\* SpecLinks: the three operations that maintain the link graph, called one
\* at a time with arbitrary links arguments (ids that exist, that do not,
\* repeated ids) on a store of at most MaxGraph nodes.
GraphIds == 1..MaxGraph
LinkLists == SeqsUpTo(GraphIds, MaxLinks)

LinksNext ==
    \/ \E l \in Opt(LinkLists) :
          nextId < MaxGraph /\ remember(<<"a">>, None, l, <<>>)
          /\ UNCHANGED serverVars
    \/ \E i \in GraphIds : forget(i) /\ UNCHANGED serverVars
    \/ \E i \in GraphIds, l \in Opt(LinkLists) : update(i, None, None, l)
          /\ UNCHANGED serverVars

SpecLinks == Init /\ [][LinksNext]_vars

\* SpecTraverse: graphs of up to MaxGraph nodes built by remember (any links
\* argument of SpecLinks), update (links arguments of at most one id) and
\* forget, and connections called on them from every start id with every
\* depth.
\* depth is any integer: nothing in connections rejects a negative one
TraverseDepths == (-1)..MaxDepth

TraverseNext ==
    \/ \E l \in Opt(LinkLists) :
          nextId < MaxGraph /\ remember(<<"a">>, None, l, <<>>)
          /\ UNCHANGED serverVars
    \/ \E i \in GraphIds : forget(i) /\ UNCHANGED serverVars
    \/ \E i \in GraphIds, l \in SeqsUpTo(GraphIds, 1) :
          update(i, None, None, Some(l)) /\ UNCHANGED serverVars
    \/ \E i \in GraphIds, dp \in TraverseDepths :
          connections(i, dp) /\ Capped(MaxVisits)' /\ UNCHANGED serverVars

SpecTraverse == Init /\ [][TraverseNext]_vars

\* SpecAccess: the calls of SpecTraverse and recall by query, so that a node
\* is returned by both recall and connections, up to MaxVisits times.
AccessNext ==
    \/ TraverseNext
    \/ \E lim \in Limits : recall(<<"a">>, None, lim) /\ Capped(MaxVisits)'
          /\ UNCHANGED serverVars

SpecAccess == Init /\ [][AccessNext]_vars

\* SpecIdentity: the five operations on up to MaxNodes nodes created with or
\* without a source label, at different times.
Sources == {<<>>, <<"s">>}

IdentityNext ==
    \/ \E s \in Sources, l \in Opt(ShortLinkLists) :
          nextId < MaxNodes /\ remember(<<"a">>, None, l, s)
          /\ UNCHANGED serverVars
    \/ \E lim \in Limits : recall(<<"a">>, None, lim) /\ Capped(MaxAccess)'
          /\ UNCHANGED serverVars
    \/ \E i \in Ids, dp \in Depths : connections(i, dp) /\ Capped(MaxAccess)'
          /\ UNCHANGED serverVars
    \/ \E i \in Ids : forget(i) /\ UNCHANGED serverVars
    \/ \E i \in Ids, c \in Contents : update(i, Some(c), None, None)
          /\ UNCHANGED serverVars
    \/ \E i \in Ids, l \in ShortLinkLists : update(i, None, None, Some(l))
          /\ UNCHANGED serverVars
    \/ Tick /\ UNCHANGED serverVars

SpecIdentity == Init /\ [][IdentityNext]_vars

\* SpecQuery: recall by every query string of up to MaxQuery characters
\* (a letter, a hyphen, a double quote, a space) over up to MaxNodes nodes.
QueryChars == {"a", "-", Quote, Space}
QueryStrings == SeqsUpTo(QueryChars, MaxQuery) \ {<<>>}
QueriedContents == {<<"a">>, <<"b">>, <<"a", "-", "b">>}

QueryNext ==
    \/ \E c \in QueriedContents :
          nextId < MaxNodes /\ remember(c, None, None, <<>>)
          /\ UNCHANGED serverVars
    \/ \E q \in QueryStrings : recall(q, None, 10) /\ Capped(MaxAccess)'
          /\ UNCHANGED serverVars

SpecQuery == Init /\ [][QueryNext]_vars

\* SpecRecall: recall over up to MaxRecall unlinked nodes that differ in
\* content and tags (RecallNodes: the content and tags arguments of
\* remember), called with every combination of query, tags and limit, a zero
\* and a negative limit included.
RecallNodes ==
    { <<<<"a">>, None>>, <<<<"a">>, Some(<<"x">>)>>,
      <<<<"a">>, Some(<<"y", "x">>)>>, <<<<"b">>, Some(<<"y", "x">>)>> }
AskedTagLists == {<<>>, <<"x">>, <<"x", "y">>}
RecallQueries == {<<>>, <<"a">>}
RecallLimits == {-1, 0, 1, 10}

RecallNext ==
    \/ \E n \in RecallNodes :
          nextId < MaxRecall /\ remember(n[1], n[2], None, <<>>)
          /\ UNCHANGED serverVars
    \/ \E q \in RecallQueries, t \in Opt(AskedTagLists), lim \in RecallLimits :
          recall(q, t, lim) /\ Capped(MaxAccess)' /\ UNCHANGED serverVars

SpecRecall == Init /\ [][RecallNext]_vars

\* SpecConc: two callers run remember and forget against one store, their
\* statements interleaved; the links arguments repeat no id.
ConcIds == 1..MaxConc
ConcLinkLists == SeqsUpTo(ConcIds, 1)

ConcNext ==
    \E t \in Threads :
        \/ \E l \in ConcLinkLists : nextId < MaxConc /\ remember_begin(t, l)
              /\ UNCHANGED serverVars
        \/ remember_validate(t) /\ UNCHANGED serverVars
        \/ remember_insert(t) /\ UNCHANGED serverVars
        \/ add_back_link_read(t) /\ UNCHANGED serverVars
        \/ add_back_link_write(t) /\ UNCHANGED serverVars
        \/ remember_return(t) /\ UNCHANGED serverVars
        \/ \E i \in ConcIds : forget_begin(t, i) /\ UNCHANGED serverVars
        \/ remove_back_link_read(t) /\ UNCHANGED serverVars
        \/ remove_back_link_write(t) /\ UNCHANGED serverVars
        \/ forget_delete(t) /\ UNCHANGED serverVars

SpecConc == Init /\ [][ConcNext]_vars

\* SpecStdio: server.py fed with up to MaxLines lines. The tool calls cover
\* each tool, the failures handle_tools_call catches (a missing key,
\* arguments that are no object, a query FTS5 rejects), the checks it makes
\* itself and a params value that is no object.
MsgIds == {0, 1}

NotAnObject == [NoArguments EXCEPT !.isdict = FALSE]

ToolCalls ==
    {Params("remember",
            [NoArguments EXCEPT !.content = Some(<<"a">>)]),
     Params("remember", NoArguments),
     Params("remember", NotAnObject),
     Params("recall", [NoArguments EXCEPT !.query = Some(<<"a">>)]),
     Params("recall", NoArguments),
     Params("recall", [NoArguments EXCEPT !.query = Some(<<Quote>>)]),
     Params("connections", [NoArguments EXCEPT !.node_id = Some(1)]),
     Params("forget", [NoArguments EXCEPT !.node_id = Some(1)]),
     Params("forget", [NoArguments EXCEPT !.node_id = Some(2)]),
     Params("update", [NoArguments EXCEPT !.node_id = Some(1),
                                          !.content = Some(<<"b">>)]),
     Params("bogus", NoArguments),
     [NoParams EXCEPT !.isdict = FALSE]}

Methods == {"initialize", "ping", "tools/list", "notifications/initialized"}

Lines ==
    {Line(k, None, "", NoParams) : k \in {"blank", "invalid", "value"}}
    \cup {Line("object", id, m, NoParams) : id \in Opt(MsgIds), m \in Methods}
    \cup {Line("object", id, "tools/call", p) :
            id \in {None, Some(1)}, p \in ToolCalls}

StdioNext ==
    \E line \in Lines : main_line(line)

SpecStdio == Init /\ [][StdioNext]_vars

\* SpecHttp: server_remote.py with and without a configured token, any
\* number of requests; the store holds at most MaxNodes nodes.
Tokens == {<<>>, <<"t">>}

AuthHeaders ==
    {<<>>, <<"t">>, Bearer \o <<"t">>, Bearer \o <<"x">>,
     Bearer \o <<"t", "t">>, <<"b">> \o Tail(Bearer) \o <<"t">>}

\* the bodies of the requests: text that is no JSON, a JSON value that is
\* no object, a notification, requests the server answers itself, and tool
\* calls that reach the store or fail before it
Bodies ==
    {Line("invalid", None, "", NoParams),
     Line("value", None, "", NoParams),
     Line("object", None, "notifications/initialized", NoParams),
     Line("object", Some(0), "ping", NoParams),
     Line("object", Some(1), "bogus", NoParams)}
    \cup {Line("object", Some(1), "tools/call", p) : p \in
            {Params("remember",
                    [NoArguments EXCEPT !.content = Some(<<"a">>)]),
             Params("recall", [NoArguments EXCEPT !.query = Some(<<"a">>)]),
             Params("forget", [NoArguments EXCEPT !.node_id = Some(1)]),
             Params("update", [NoArguments EXCEPT !.node_id = Some(2),
                                                  !.content = Some(<<"b">>)]),
             [NoParams EXCEPT !.isdict = FALSE]}}

Paths == {"/mcp", "/"}

Accepts == {"", "text/event-stream"}

HttpInit == StoreInit /\ ServerInit /\ AUTH_TOKEN \in Tokens

HttpNext ==
    \E path \in Paths, auth \in AuthHeaders, accept \in Accepts,
       msg \in Bodies :
        /\ do_POST(path, auth, accept, msg)
        /\ nextId' <= MaxNodes
        /\ Capped(MaxAccess)'

SpecHttp == HttpInit /\ [][HttpNext]_vars

\* SpecLoop: one caller runs connections turn by turn on graphs built
\* between its calls, with cycles and with depths from -1 to one more than
\* any distance in the graph. The caller's thread keeps running: a step of
\* the call that can be taken is taken (weak fairness).
LoopDepths == (-1)..(MaxDepth + 1)

LoopStep ==
    /\ \/ connections_visit(1)
       \/ connections_done(1)
       \/ access_update(1)
       \/ access_return(1)
    /\ UNCHANGED serverVars

LoopNext ==
    \/ \E l \in Opt(LinkLists) :
          /\ threads[1].pc = "idle"
          /\ nextId < MaxGraph
          /\ remember(<<"a">>, None, l, <<>>)
          /\ UNCHANGED serverVars
    \/ \E i \in GraphIds, dp \in LoopDepths :
          /\ Capped(MaxVisits - 1)
          /\ connections_begin(1, i, dp)
          /\ UNCHANGED serverVars
    \/ LoopStep

SpecLoop == Init /\ [][LoopNext]_vars /\ WF_vars(LoopStep)

\* SpecHits: two callers run recall and connections statement by statement
\* on the same store, in every interleaving. A call begins only while
\* every counter, with the calls in progress counted in, stays below
\* MaxVisits; nodes are added between calls.
Room ==
    \A i \in DOMAIN nodes :
        nodes[i].access_count
            + Cardinality({u \in Threads : threads[u].pc # "idle"}) < MaxVisits

HitsNext ==
    \/ \E l \in {None, Some(<<1>>)} :
          /\ \A t \in Threads : threads[t].pc = "idle"
          /\ nextId < MaxNodes
          /\ remember(<<"a">>, None, l, <<>>)
          /\ UNCHANGED serverVars
    \/ \E t \in Threads, lim \in Limits :
          Room /\ recall_begin(t, <<"a">>, None, lim) /\ UNCHANGED serverVars
    \/ \E t \in Threads, i \in 1..MaxNodes, dp \in 0..1 :
          Room /\ connections_begin(t, i, dp) /\ UNCHANGED serverVars
    \/ \E t \in Threads : connections_visit(t) /\ UNCHANGED serverVars
    \/ \E t \in Threads : connections_done(t) /\ UNCHANGED serverVars
    \/ \E t \in Threads : access_update(t) /\ UNCHANGED serverVars
    \/ \E t \in Threads : access_return(t) /\ UNCHANGED serverVars

SpecHits == Init /\ [][HitsNext]_vars

\* SpecRace: one caller runs recall statement by statement while the other
\* runs forget statement by statement on the same store; nodes are added
\* between calls.
RaceNext ==
    \/ \E l \in {None, Some(<<1>>)} :
          /\ \A t \in Threads : threads[t].pc = "idle"
          /\ nextId < MaxNodes
          /\ remember(<<"a">>, None, l, <<>>)
          /\ UNCHANGED serverVars
    \/ \E lim \in Limits :
          Room /\ recall_begin(1, <<"a">>, None, lim) /\ UNCHANGED serverVars
    \/ access_update(1) /\ UNCHANGED serverVars
    \/ access_return(1) /\ UNCHANGED serverVars
    \/ \E i \in 1..MaxNodes : forget_begin(2, i) /\ UNCHANGED serverVars
    \/ remove_back_link_read(2) /\ UNCHANGED serverVars
    \/ remove_back_link_write(2) /\ UNCHANGED serverVars
    \/ forget_delete(2) /\ UNCHANGED serverVars

SpecRace == Init /\ [][RaceNext]_vars

---------------------------------------------------------------------------
(* Properties of the link graph (SpecLinks). *)

LinksOf(i) == Range(nodes[i].links)

\* an operation of SpecLinks or Spec (not the passing of time) has just run
\* and was the named one
Step(op) == last'.op = op /\ clock' = clock

\* C1: I1, link symmetry: for all existing nodes A and B, A's link list
\* contains B's id if and only if B's link list contains A's id
LinkSymmetry ==
    \A a \in DOMAIN nodes, b \in DOMAIN nodes :
        b \in LinksOf(a) <=> a \in LinksOf(b)

\* C2: I2, no dangling links: every id in every stored link list is the id
\* of an existing node
NoDanglingLinks ==
    \A a \in DOMAIN nodes : LinksOf(a) \subseteq DOMAIN nodes

\* C3: every stored link list contains each id at most once
NoDuplicateLinks ==
    \A a \in DOMAIN nodes :
        \A j, k \in 1..Len(nodes[a].links) :
            nodes[a].links[j] = nodes[a].links[k] => j = k

\* C4: I3, no self-links: no node's link list contains the node's own id,
\* also after update(X, links=L) with X in L
NoSelfLinks ==
    \A a \in DOMAIN nodes : a \notin LinksOf(a)

\* an update of an existing X whose links argument names X itself completed
SelfLinkRequested ==
    /\ last.op = "update"
    /\ ret.status = "ok"
    /\ ~IsNone(last.links)
    /\ last.node_id \in Range(Val(last.links))
    /\ Len(ret.rows[1].links) > 0

\* C7: best-effort linking on create: remember(content, links=L) succeeds and
\* returns the record of the new node, whose link list is the subsequence of
\* L of the ids existing at call time, in requested order; afterwards the new
\* id is in the link list of every resolved target
RememberLinksBestEffort ==
    [][Step("remember") /\ nextId' # nextId =>
        LET L == OrEmpty(last'.links)
            resolved == SelectSeq(L, LAMBDA x : x \in DOMAIN nodes)
        IN  /\ ret'.status = "ok"
            /\ Len(ret'.rows) = 1
            /\ ret'.rows[1].id = nextId'
            /\ ret'.rows[1].id \notin DOMAIN nodes
            /\ ret'.rows[1] = nodes'[nextId']
            /\ ret'.rows[1].links = resolved
            /\ \A x \in Range(resolved) : nextId' \in Range(nodes'[x].links)
    ]_vars

\* a remember whose links argument had an id that resolved and one that did
\* not completed
RememberDroppedSome ==
    /\ last.op = "remember"
    /\ ret.status = "ok"
    /\ Len(ret.rows[1].links) > 0
    /\ Len(ret.rows[1].links) < Len(OrEmpty(last.links))

\* C8: link replacement on update: update(X, links=L) on an existing X stores
\* exactly the validated list; every node of the old link set that is not in
\* the new one no longer has X in its link list, every node newly in the set
\* has X in its link list
UpdateReplacesLinks ==
    [][Step("update") /\ ~IsNone(last'.links) /\ last'.node_id \in DOMAIN nodes =>
        LET X == last'.node_id
            validated == SelectSeq(Val(last'.links),
                            LAMBDA l : l # X /\ l \in DOMAIN nodes)
            old == Range(nodes[X].links)
            new == Range(validated)
        IN  /\ nodes'[X].links = validated
            /\ \A n \in (old \ new) \cap DOMAIN nodes' :
                   X \notin Range(nodes'[n].links)
            /\ \A n \in new \ old : X \in Range(nodes'[n].links)
    ]_vars

---------------------------------------------------------------------------
(* Properties of the store (Spec). *)

\* C5: I4, index consistency: the full-text index holds exactly one entry
\* per existing node, carrying that node's current content, and nothing
\* else; a recall by query returns only existing nodes whose current content
\* matches the query
IndexConsistent ==
    /\ \A i, j \in DOMAIN nodes : nodes[i].rowid = nodes[j].rowid => i = j
    /\ fts = SetToBag({<<nodes[i].rowid, nodes[i].content>> : i \in DOMAIN nodes})
    /\ last.op = "recall" /\ last.query # <<>> /\ ret.status = "ok" =>
          \A k \in 1..Len(ret.rows) :
              /\ ret.rows[k].id \in DOMAIN nodes
              /\ ret.rows[k].content = nodes[ret.rows[k].id].content
              /\ FtsMatch(ret.rows[k].content,
                          Fts5Parse(_sanitize_fts_query(last.query)).phrases)

\* a recall by query found a node under the content a completed update gave
\* it, in a store a node was deleted from
RecallAfterReplace ==
    /\ last.op = "recall"
    /\ last.query = <<"a">>
    /\ Len(ret.rows) = 1
    /\ ret.rows[1].id = 2
    /\ ret.rows[1].rowid = 1
    /\ DOMAIN nodes = {2}

\* C9: partial update frame: an update that omits a field leaves that field
\* of X unchanged (omitted links: every node's link list unchanged); a given
\* field is replaced by the given value, an empty list included
UpdateFrame ==
    [][Step("update") /\ last'.node_id \in DOMAIN nodes =>
        LET X == last'.node_id
        IN  /\ X \in DOMAIN nodes'
            /\ IF ~IsNone(last'.content)
               THEN nodes'[X].content = Val(last'.content)
               ELSE nodes'[X].content = nodes[X].content
            /\ IF ~IsNone(last'.tags)
               THEN nodes'[X].tags = Val(last'.tags)
               ELSE nodes'[X].tags = nodes[X].tags
            /\ IsNone(last'.links) =>
                   /\ DOMAIN nodes' = DOMAIN nodes
                   /\ \A n \in DOMAIN nodes : nodes'[n].links = nodes[n].links
            /\ ~IsNone(last'.links) /\ Val(last'.links) = <<>> =>
                   nodes'[X].links = <<>>
    ]_vars

\* an update that gave an empty tag list to a linked node completed
UpdateEmptiedTags ==
    /\ last.op = "update"
    /\ ret.status = "ok"
    /\ last.tags = Some(<<>>)
    /\ IsNone(last.content) /\ IsNone(last.links)
    /\ Len(ret.rows[1].links) > 0

\* C10: not-found signal: connections, forget and update called with an id
\* that names no existing node return None and leave the table (records,
\* link lists, access statistics) and the index unchanged
NotFoundSignal ==
    [][(/\ Step("connections") \/ Step("forget") \/ Step("update")
        /\ last'.node_id \notin DOMAIN nodes)
       => /\ ret'.status = "none"
          /\ ret'.rows = <<>>
          /\ nodes' = nodes
          /\ fts' = fts
          /\ nextId' = nextId
    ]_vars

\* connections was called on the id of a deleted node, in a non-empty store
NotFoundReturned ==
    /\ last.op = "connections"
    /\ ret.status = "none"
    /\ last.node_id <= nextId
    /\ DOMAIN nodes # {}

---------------------------------------------------------------------------
(* Properties of concurrent callers (SpecConc). *)

AtRest == \A t \in Threads : threads[t].pc = "idle"

\* thread t completed a remember that linked its node to n, and n's link
\* list does not hold the id of that node
Missed(t, n) ==
    /\ threads[t].op = "remember"
    /\ n \in Range(threads[t].valid)
    /\ threads[t].node_id \in DOMAIN nodes
    /\ threads[t].node_id \notin Range(nodes[n].links)

\* C6: lost update under concurrency: when the calls of two callers overlap,
\* a neighbour's link list can miss the back-link of a completed call, and
\* link symmetry then fails at rest (LostUpdate is reached); with links
\* arguments that repeat no id this happens only when a back-link was
\* written back from a read that another write had outdated
LostUpdateOnlyByRace ==
    AtRest /\ ~LinkSymmetry => stale

\* both callers completed a remember linking to the same existing neighbour
\* n, and n's link list holds the back-link of only one of them
LostUpdate ==
    /\ AtRest
    /\ \E n \in DOMAIN nodes :
          /\ \A t \in Threads :
                threads[t].op = "remember" /\ threads[t].valid = <<n>>
          /\ \E t \in Threads : Missed(t, n)
          /\ \E t \in Threads : ~Missed(t, n)
    /\ ~LinkSymmetry

---------------------------------------------------------------------------
(* Properties of the traversal (SpecTraverse). *)

\* the ids of the records of a result, as a set and in order
IdsOf(rows) == {rows[k].id : k \in 1..Len(rows)}
IdSeq(rows) == [k \in 1..Len(rows) |-> rows[k].id]

\* the existing nodes within k hops of start along the stored link lists
RECURSIVE Reach(_, _)
Reach(start, k) ==
    IF k = 0 THEN {start} \cap DOMAIN nodes
    ELSE LET near == Reach(start, k - 1)
         IN  near \cup {b \in DOMAIN nodes : \E a \in near : b \in LinksOf(a)}

\* the shortest hop distance from start to a node b that start reaches
Hops(start, b) ==
    CHOOSE k \in 0..Cardinality(DOMAIN nodes) :
        /\ b \in Reach(start, k)
        /\ \A j \in 0..(k - 1) : b \notin Reach(start, j)

\* C11: BFS reachability and distance: connections(start, depth), for an
\* existing start and a depth that is a hop count (depth >= 0), returns
\* exactly the nodes whose shortest hop distance from start over the stored
\* link lists is at most depth, each annotated with that shortest distance
\* (start with 0); a node found at exactly depth is returned and its links
\* are not followed, so depth = 0 returns only the start node
ConnectionsIsBfs ==
    [][(/\ Step("connections")
        /\ last'.node_id \in DOMAIN nodes
        /\ last'.depth >= 0)
       => /\ ret'.status = "ok"
          /\ IdsOf(ret'.rows) = Reach(last'.node_id, last'.depth)
          /\ Len(ret'.dist) = Len(ret'.rows)
          /\ \A k \in 1..Len(ret'.rows) :
                ret'.dist[k] = Hops(last'.node_id, ret'.rows[k].id)
          /\ last'.depth = 0 => IdSeq(ret'.rows) = <<last'.node_id>>
    ]_vars

\* connections with depth 1 returned a node whose link list holds an existing
\* node that the result leaves out: the node at the depth limit was returned
\* and not expanded
FrontierNotExpanded ==
    /\ last.op = "connections"
    /\ last.depth = 1
    /\ ret.status = "ok"
    /\ \E k \in 1..Len(ret.rows) :
          /\ ret.dist[k] = 1
          /\ \E b \in DOMAIN nodes :
                b \in Range(ret.rows[k].links) /\ b \notin IdsOf(ret.rows)

\* the position in rows of the first record whose link list holds rows[k].id
Discoverer(rows, k) ==
    CHOOSE p \in 1..Len(rows) :
        /\ rows[k].id \in Range(rows[p].links)
        /\ \A q \in 1..(p - 1) : rows[k].id \notin Range(rows[q].links)

\* the position of the first occurrence of x in links
FirstAt(links, x) ==
    CHOOSE n \in 1..Len(links) :
        links[n] = x /\ \A m \in 1..(n - 1) : links[m] # x

\* rows[i] was discovered before rows[j]: from an earlier record, or from the
\* same record by an earlier entry of its link list
DiscoveredBefore(rows, i, j) ==
    LET p == Discoverer(rows, i)
        q == Discoverer(rows, j)
    IN  \/ p < q
        \/ /\ p = q
           /\ FirstAt(rows[p].links, rows[i].id) < FirstAt(rows[p].links, rows[j].id)

\* C12: traversal output order: the returned sequence starts with the start
\* node, holds each node at most once, and is ordered by non-decreasing
\* distance: it is the BFS first-discovery order, neighbours in link-list
\* order
ConnectionsOrder ==
    [][(Step("connections") /\ last'.node_id \in DOMAIN nodes)
       => LET rows == ret'.rows
              dist == ret'.dist
          IN  /\ Len(rows) >= 1
              /\ rows[1].id = last'.node_id
              /\ \A i, j \in 1..Len(rows) : rows[i].id = rows[j].id => i = j
              /\ \A i, j \in 1..Len(rows) : i < j => dist[i] <= dist[j]
              /\ \A i, j \in 2..Len(rows) :
                    i < j => DiscoveredBefore(rows, i, j)
    ]_vars

\* connections returned two neighbours of the start node in the order of its
\* link list, which is not the order of their creation
NeighboursInListOrder ==
    /\ last.op = "connections"
    /\ ret.status = "ok"
    /\ Len(ret.rows) = 3
    /\ ret.dist = <<0, 1, 1>>
    /\ ret.rows[2].id > ret.rows[3].id

---------------------------------------------------------------------------
(* Properties of recall and of the access statistics (SpecRecall,           *)
(* SpecTraverse, Spec).                                                    *)

\* C13: recall access tracking: recall increments access_count by exactly 1
\* for each node in the result it returns (after the tag filter and the
\* limit), the returned records carry the incremented count, and every node
\* not in the result, a candidate cut by the filter or the limit included,
\* keeps its count
RecallCountsReturned ==
    [][Step("recall")
       => /\ DOMAIN nodes' = DOMAIN nodes
          /\ \A i \in DOMAIN nodes :
                nodes'[i].access_count =
                    IF i \in IdsOf(ret'.rows)
                    THEN nodes[i].access_count + 1
                    ELSE nodes[i].access_count
          /\ \A k \in 1..Len(ret'.rows) :
                /\ ret'.rows[k].id \in DOMAIN nodes
                /\ ret'.rows[k].access_count =
                       nodes[ret'.rows[k].id].access_count + 1
    ]_vars

\* recall by tag x with limit 1 returned one node with count 1, while a
\* second node tagged x (cut by the limit) and a node without the tag (cut by
\* the filter) keep count 0
RecallLeftOthersUncounted ==
    /\ last.op = "recall"
    /\ last.tags = Some(<<"x">>)
    /\ last.limit = 1
    /\ Len(ret.rows) = 1
    /\ ret.rows[1].access_count = 1
    /\ \E i, j \in DOMAIN nodes \ IdsOf(ret.rows) :
          /\ "x" \in Range(nodes[i].tags)
          /\ "x" \notin Range(nodes[j].tags)
          /\ nodes[i].access_count = 0
          /\ nodes[j].access_count = 0

\* C14: traversal access tracking: one connections call increments
\* access_count by exactly 1 for every node it returns, also when the graph
\* has cycles or several paths to a node, and leaves every other node's
\* count unchanged
ConnectionsCountsReturned ==
    [][Step("connections")
       => /\ DOMAIN nodes' = DOMAIN nodes
          /\ \A i \in DOMAIN nodes :
                nodes'[i].access_count =
                    IF i \in IdsOf(ret'.rows)
                    THEN nodes[i].access_count + 1
                    ELSE nodes[i].access_count
    ]_vars

\* connections with depth 2 ran on a triangle: the two neighbours of the
\* start node link to each other and back to it; all three were returned and
\* have count 1
TriangleCountedOnce ==
    /\ last.op = "connections"
    /\ last.depth = 2
    /\ ret.dist = <<0, 1, 1>>
    /\ ret.rows[3].id \in Range(ret.rows[2].links)
    /\ ret.rows[2].id \in Range(ret.rows[3].links)
    /\ ret.rows[1].id \in Range(ret.rows[2].links)
    /\ \A k \in 1..3 : nodes[ret.rows[k].id].access_count = 1

\* C15: create, update and delete never touch access statistics: remember
\* returns a node with access_count 0, and remember, update and forget leave
\* access_count and last_accessed of every node that exists before and after
\* the call unchanged, the neighbours whose link lists they rewrite included
WritesKeepAccessStats ==
    [][(Step("remember") \/ Step("update") \/ Step("forget"))
       => /\ \A i \in DOMAIN nodes \cap DOMAIN nodes' :
                /\ nodes'[i].access_count = nodes[i].access_count
                /\ nodes'[i].last_accessed = nodes[i].last_accessed
          /\ Step("remember") => ret'.rows[1].access_count = 0
    ]_vars

\* remember linked its new node to node 1, which was accessed earlier: node 1
\* lists the new node, and still has count 1 and its earlier access time
NeighbourKeptStats ==
    /\ last.op = "remember"
    /\ last.links = Some(<<1>>)
    /\ 1 \in DOMAIN nodes
    /\ ret.rows[1].id \in Range(nodes[1].links)
    /\ ret.rows[1].access_count = 0
    /\ nodes[1].access_count = 1
    /\ nodes[1].last_accessed < clock

\* the candidate sequences the SELECT of recall can produce for query
CandidatesFor(query) ==
    IF query # <<>>
    THEN FtsCandidates(Db(nodes, fts), Fts5Parse(_sanitize_fts_query(query)).phrases)
    ELSE {ByRowid(nodes, DOMAIN nodes)}

\* the nodes that carry every tag of the list asked
TaggedAll(asked) == {i \in DOMAIN nodes : Range(asked) \subseteq Range(nodes[i].tags)}

IsPrefix(s, t) == Len(s) <= Len(t) /\ s = SubSeq(t, 1, Len(s))

\* C16: recall tag filter, AND semantics: recall with a non-empty tags list
\* returns only nodes whose tag list contains every requested tag; with an
\* empty query and a limit of at least the number of such nodes it returns
\* all of them; the filter keeps the relative order of the candidates
RecallTagFilter ==
    [][(/\ Step("recall")
        /\ ~IsNone(last'.tags)
        /\ Val(last'.tags) # <<>>)
       => LET asked == Val(last'.tags)
              ids == IdSeq(ret'.rows)
          IN  /\ ret'.status = "ok"
              /\ \A k \in 1..Len(ret'.rows) :
                    Range(asked) \subseteq Range(ret'.rows[k].tags)
              /\ (last'.query = <<>> /\ last'.limit >= Cardinality(TaggedAll(asked)))
                    => IdsOf(ret'.rows) = TaggedAll(asked)
              /\ \E c \in CandidatesFor(last'.query) :
                    IsPrefix(ids, SelectSeq(c, LAMBDA i : i \in TaggedAll(asked)))
    ]_vars

\* recall with tags [x, y], no query and limit 10 on three nodes returned the
\* first and the third; the second carries x alone
RecallSkippedPartlyTagged ==
    /\ last.op = "recall"
    /\ last.tags = Some(<<"x", "y">>)
    /\ last.query = <<>>
    /\ last.limit = 10
    /\ IdSeq(ret.rows) = <<1, 3>>
    /\ 2 \in DOMAIN nodes
    /\ nodes[2].tags = <<"x">>

\* the candidates of the last call after its tag filter, for the order c
Filtered(c, tags) ==
    IF IsNone(tags) \/ Val(tags) = <<>> THEN c
    ELSE SelectSeq(c, LAMBDA i : i \in TaggedAll(Val(tags)))

\* the first n elements of s, all of s when it has fewer
FirstN(s, n) == SubSeq(s, 1, IF n < Len(s) THEN n ELSE Len(s))

\* a recall step that searched: it had a query or tags to search by
Searched ==
    /\ Step("recall")
    /\ ret'.status = "ok"
    /\ last'.query # <<>> \/ (~IsNone(last'.tags) /\ Val(last'.tags) # <<>>)

RecallNothingAsked ==
    [][(/\ Step("recall")
        /\ last'.query = <<>>
        /\ IsNone(last'.tags) \/ Val(last'.tags) = <<>>)
       => /\ ret'.status = "ok"
          /\ ret'.rows = <<>>
          /\ nodes' = nodes
          /\ fts' = fts
          /\ nextId' = nextId
    ]_vars

\* recall("", tags=[], limit=10) returned nothing from a store of three nodes,
\* none of which has been accessed
RecallOfNothingOnFullStore ==
    /\ last.op = "recall"
    /\ last.query = <<>>
    /\ last.tags = Some(<<>>)
    /\ last.limit = 10
    /\ ret.status = "ok"
    /\ ret.rows = <<>>
    /\ Cardinality(DOMAIN nodes) = 3
    /\ \A i \in DOMAIN nodes : nodes[i].access_count = 0

---------------------------------------------------------------------------
(* Properties of deletion and of the access history (SpecTraverse,         *)
(* SpecAccess).                                                            *)

\* the ids of nodes that were created and have been deleted
Forgotten == (1..nextId) \ DOMAIN nodes

\* C19: delete removes the record and is signalled once: forget(X) on an
\* existing X returns an acknowledgment containing X, and X's record is
\* absent from then on; any later forget(X), update(X) or connections(X)
\* returns the not-found signal, and a later remember or update that requests
\* a link to X drops that id
ForgetRemovesForGood ==
    [][/\ (Step("forget") /\ last'.node_id \in DOMAIN nodes)
          => /\ ret'.status = "ok"
             /\ ret'.deleted = last'.node_id
             /\ last'.node_id \notin DOMAIN nodes'
       /\ Forgotten \subseteq Forgotten'
       /\ (/\ Step("forget") \/ Step("update") \/ Step("connections")
           /\ last'.node_id \in Forgotten)
          => ret'.status = "none"
       /\ (/\ Step("remember") \/ Step("update")
           /\ ret'.status = "ok")
          => Range(ret'.rows[1].links) \cap Forgotten = {}
    ]_vars

\* remember was asked to link its node to the deleted node 1 and to the
\* existing node 2, and returned a node linked to node 2 alone
LinkToForgottenDropped ==
    /\ last.op = "remember"
    /\ last.links = Some(<<1, 2>>)
    /\ 1 \in Forgotten
    /\ ret.rows[1].links = <<2>>

\* C20: access_count is monotonic: a node's access_count never decreases
\* while the node exists, and it equals the number of recall and connections
\* results the node has appeared in since its creation
AccessCountIsHistory ==
    [][/\ \A i \in DOMAIN nodes \cap DOMAIN nodes' :
             nodes'[i].access_count >= nodes[i].access_count
       /\ \A i \in DOMAIN nodes' : nodes'[i].access_count = appeared'[i]
    ]_vars

\* connections returned a node that an earlier call had returned: it has
\* count 2, next to a node returned once and a node that no call returned
CountedByBoth ==
    /\ last.op = "connections"
    /\ ret.status = "ok"
    /\ \E k \in 1..Len(ret.rows) :
          /\ ret.rows[k].access_count = 2
          /\ appeared[ret.rows[k].id] = 2
    /\ \E i \in DOMAIN nodes : nodes[i].access_count = 0
    /\ \E i \in DOMAIN nodes : nodes[i].access_count = 1

---------------------------------------------------------------------------
(* Properties of the identity fields (SpecIdentity). *)

\* C21: immutable identity fields: a node's id, source and created_at, fixed
\* by remember, are never changed by any later update, recall or connections,
\* nor by the link maintenance of operations on other nodes, for as long as
\* the node exists; the ids of distinct nodes are distinct
IdentityFixed ==
    [][/\ \A i \in DOMAIN nodes \cap DOMAIN nodes' :
             /\ nodes'[i].id = nodes[i].id
             /\ nodes'[i].source = nodes[i].source
             /\ nodes'[i].created_at = nodes[i].created_at
       /\ \A i, j \in DOMAIN nodes' :
             i # j => /\ nodes'[i].id # nodes'[j].id
                      /\ nodes'[i].rowid # nodes'[j].rowid
       /\ Step("remember")
             => /\ ret'.rows[1].id \notin 1..nextId
                /\ ret'.rows[1].created_at = clock
    ]_vars

\* update replaced the content of a node that was created earlier with source
\* label s, was linked to by the other node and has been accessed: it still
\* has its label and its creation time
LabelOutlivedUpdate ==
    /\ last.op = "update"
    /\ ret.status = "ok"
    /\ ret.rows[1].content = <<"b">>
    /\ ret.rows[1].source = <<"s">>
    /\ ret.rows[1].created_at < clock
    /\ ret.rows[1].access_count = 1
    /\ ret.rows[1].links # <<>>

---------------------------------------------------------------------------
(* Properties of the query text (SpecQuery). *)

\* C22: literal query tokens: for every query string (with a token in it),
\* _sanitize_fts_query splits on whitespace and emits each token as one
\* well-formed quoted literal term, so no character of a token (hyphen,
\* double quote) is read as an operator or breaks the query syntax: the
\* expression parses into one phrase per token, the phrase of the token's
\* own words, and recall returns the nodes whose content holds every token
QueryTokensLiteral ==
    [][(Step("recall") /\ Split(last'.query) # <<>>)
       => LET tokens == Split(last'.query)
              expr == Fts5Parse(_sanitize_fts_query(last'.query))
              literal == [i \in 1..Len(tokens) |-> Tokenize(tokens[i])]
          IN  /\ expr.ok
              /\ expr.phrases = literal
              /\ ret'.status = "ok"
              /\ IdsOf(ret'.rows) =
                    {i \in DOMAIN nodes : FtsMatch(nodes[i].content, literal)}
    ]_vars

---------------------------------------------------------------------------
(* C23 *)

Answerable(line) == line.kind = "object" /\ ~IsNone(line.id)

\* what main has written answers the messages with an id it has read, one
\* response each, with the same id and in the order of the input, with
\* code -32601 where the method is unknown
AnsweredInOrder ==
    LET asked == SelectSeq(stdin, Answerable)
    IN  /\ Len(stdout) = Len(asked)
        /\ \A k \in 1..Len(asked) :
              /\ stdout[k].id = Val(asked[k].id)
              /\ asked[k].method \notin
                    {"initialize", "ping", "tools/list", "tools/call"}
                 => /\ stdout[k].error # <<>>
                    /\ stdout[k].error[1].code = -32601

\* C23: for any sequence of input lines the server has written exactly one
\* response for each message with an id, with the same id and in input
\* order (an error with code -32601 when the method is unknown), nothing
\* for notifications, empty lines and lines that are not valid JSON, and
\* after every line it is still there to answer the next one.
StdioAnswersEveryRequest == running /\ AnsweredInOrder

---------------------------------------------------------------------------
(* C24 *)

\* the request asks for a tool that takes a node id, and names one
AsksNode(msg, name) ==
    /\ msg.kind = "object"
    /\ ~IsNone(msg.id)
    /\ msg.method = "tools/call"
    /\ msg.params.isdict
    /\ msg.params.name = name
    /\ msg.params.arguments.isdict
    /\ ~IsNone(msg.params.arguments.node_id)

\* C24: with a token configured, a POST to /mcp whose Authorization header
\* is not exactly "Bearer <token>" is answered with 401, no store operation
\* runs and the store is left as it was; a POST with the matching header is
\* not answered with 401 and is dispatched: a message with an id gets its
\* response with status 200, and a forget it asks for is run by the store.
AuthGate ==
    [][(AUTH_TOKEN # <<>> /\ http'.path = "/mcp")
       => IF http'.auth # Bearer \o AUTH_TOKEN
          THEN /\ http'.status = 401
               /\ UNCHANGED storeVars
          ELSE /\ http'.status # 401
               /\ (http'.msg.kind = "object" /\ ~IsNone(http'.msg.id)
                   /\ (http'.msg.method = "tools/call"
                       => http'.msg.params.isdict))
                  => /\ http'.status = 200
                     /\ http'.body[1].id = Val(http'.msg.id)
               /\ AsksNode(http'.msg, "forget")
                  => /\ last'.op = "forget"
                     /\ last'.node_id = Val(http'.msg.params.arguments.node_id)
                     /\ last'.node_id \notin DOMAIN nodes']_vars

\* a forget of a stored node came with the token doubled after "Bearer ",
\* was answered with 401, and the node is still there
RejectedForgetLeftNode ==
    /\ AUTH_TOKEN # <<>>
    /\ http.path = "/mcp"
    /\ http.auth = Bearer \o AUTH_TOKEN \o AUTH_TOKEN
    /\ http.status = 401
    /\ AsksNode(http.msg, "forget")
    /\ Val(http.msg.params.arguments.node_id) \in DOMAIN nodes

---------------------------------------------------------------------------
(* C25 *)

\* the tools/call that main answered in this step, and the tool result it
\* wrote
Called == stdin'[Len(stdin')].params
Result == stdout'[Len(stdout')].result[1]

\* this step answered a tools/call whose params and arguments are objects
AnsweredToolCall ==
    /\ Len(stdin') = Len(stdin) + 1
    /\ Len(stdout') = Len(stdout) + 1
    /\ stdin'[Len(stdin')].method = "tools/call"
    /\ Called.isdict
    /\ Called.arguments.isdict

\* C25: handle_tools_call returns an isError result and does not call the
\* store when recall comes with neither a query nor tags; for connections,
\* forget and update with a node id it calls the store and returns the
\* isError result "Node not found" exactly when the store returned None;
\* every result the store returned otherwise is passed on with isError false.
TwoLayerValidation ==
    [][AnsweredToolCall =>
        /\ (/\ Called.name = "recall"
            /\ Get(Called.arguments.query, <<>>) = <<>>
            /\ Get(Called.arguments.tags, <<>>) = <<>>)
           => /\ Result.isError
              /\ Result.content.obj = <<>>
              /\ UNCHANGED storeVars
        /\ (/\ Called.name \in {"connections", "forget", "update"}
            /\ ~IsNone(Called.arguments.node_id))
           => /\ last'.op = Called.name
              /\ last'.node_id = Val(Called.arguments.node_id)
              /\ (Result.isError /\ Result.content.str = "Node not found")
                 <=> ret'.status = "none"
        /\ (/\ \/ Called.name = "remember" /\ ~IsNone(Called.arguments.content)
               \/ Called.name = "recall"
                  /\ Get(Called.arguments.query, <<>>) # <<>>
               \/ Called.name \in {"connections", "forget", "update"}
                  /\ ~IsNone(Called.arguments.node_id)
            /\ ret'.status = "ok")
           => /\ last'.op = Called.name
              /\ ~Result.isError
              /\ Result.content.obj = <<ret'>>]_vars

\* on a store that holds a node, a forget of an absent node was answered
\* "Node not found" and a recall without criteria was answered with an error
NotFoundAndMissingAnswered ==
    /\ Len(stdin) = 3
    /\ Len(stdout) = 3
    /\ nodes # <<>>
    /\ stdin[2].method = "tools/call"
    /\ stdin[2].params.name = "forget"
    /\ stdout[2].result[1].isError
    /\ stdout[2].result[1].content.str = "Node not found"
    /\ stdin[3].method = "tools/call"
    /\ stdin[3].params.name = "recall"
    /\ stdin[3].params.arguments.query = None
    /\ stdout[3].result[1].isError
    /\ last.op = "forget"

---------------------------------------------------------------------------
(* C26, C27 *)

\* the entries of a list other than x, in their order
Without(s, x) == SelectSeq(s, LAMBDA e : e # x)

\* how often x is in a list
Count(s, x) == Cardinality({k \in 1..Len(s) : s[k] = x})

\* after is before with x taken out (before itself when x is not in it):
\* the other entries and their order are kept
TakenOut(before, after, x) ==
    /\ Without(after, x) = Without(before, x)
    /\ IF Count(before, x) = 0 THEN after = before
       ELSE Count(after, x) < Count(before, x)

\* after is before with x appended at the end (before itself when x is
\* in it already)
PutIn(before, after, x) ==
    IF Count(before, x) = 0 THEN after = Append(before, x) ELSE after = before

\* C26: update(X, links=L) on an existing X changes a node other than X
\* only if it is in the symmetric difference of X's old link set and the
\* validated new set, and there only the link list, by removing X's id (old
\* only) or appending it (new only), other entries and their order kept;
\* nodes in both sets and all unrelated nodes are unchanged.
UpdateLeavesOthers ==
    [][Step("update") /\ ~IsNone(last'.links) /\ last'.node_id \in DOMAIN nodes =>
        LET X == last'.node_id
            old == Range(nodes[X].links)
            new == {l \in Range(Val(last'.links)) : l # X /\ l \in DOMAIN nodes}
        IN  /\ DOMAIN nodes' = DOMAIN nodes
            /\ \A n \in DOMAIN nodes \ {X} :
                 /\ [nodes'[n] EXCEPT !.links = nodes[n].links] = nodes[n]
                 /\ n \in old \ new =>
                        TakenOut(nodes[n].links, nodes'[n].links, X)
                 /\ n \in new \ old =>
                        PutIn(nodes[n].links, nodes'[n].links, X)
                 /\ n \notin (old \ new) \cup (new \ old) =>
                        nodes'[n] = nodes[n]
    ]_vars

\* update(1, links=[3]) was the last call; node 3 lists node 1 after its
\* older entry 2, node 2 lists node 3 and no longer node 1
UpdateSwappedNeighbour ==
    /\ last.op = "update"
    /\ last.node_id = 1
    /\ last.links = Some(<<3>>)
    /\ DOMAIN nodes = {1, 2, 3}
    /\ nodes[1].links = <<3>>
    /\ nodes[2].links = <<3>>
    /\ nodes[3].links = <<2, 1>>

\* C27: forget(X) on an existing X removes X's record and changes, besides,
\* only the link lists of the nodes in X's link list, in each only by
\* removing X's id (other entries and their order kept); every other node is
\* unchanged, and so are content and tags of the neighbours.
ForgetTouchesNeighbours ==
    [][Step("forget") /\ last'.node_id \in DOMAIN nodes =>
        LET X == last'.node_id
            listed == Range(nodes[X].links)
        IN  /\ DOMAIN nodes' = DOMAIN nodes \ {X}
            /\ \A n \in DOMAIN nodes' :
                 /\ [nodes'[n] EXCEPT !.links = nodes[n].links] = nodes[n]
                 /\ n \in listed =>
                        TakenOut(nodes[n].links, nodes'[n].links, X)
                 /\ n \notin listed => nodes'[n] = nodes[n]
    ]_vars

\* forget(1) was the last call; node 2, which node 1 did not list, still
\* lists the deleted node 1 next to node 3, and node 3 kept its entry 2
ForgetLeftUnlisted ==
    /\ last.op = "forget"
    /\ last.node_id = 1
    /\ ret.deleted = 1
    /\ DOMAIN nodes = {2, 3}
    /\ 1 \in Range(nodes[2].links)
    /\ 3 \in Range(nodes[2].links)
    /\ nodes[3].links = <<2>>

---------------------------------------------------------------------------
(* C29 *)

\* max(depth, 0)
AtLeastZero(depth) == IF depth > 0 THEN depth ELSE 0

\* C29: every record of a connections result is the record of a node that
\* exists, each with a distance between 0 and max(depth, 0), the start node
\* first at distance 0; an id in a link list that names no existing node
\* is not in the result, and the nodes listed next to it are still found.
ConnectionsOnlyExisting ==
    [][Step("connections") /\ ret'.status = "ok" =>
        /\ Len(ret'.dist) = Len(ret'.rows)
        /\ Len(ret'.rows) >= 1
        /\ ret'.rows[1].id = last'.node_id
        /\ ret'.dist[1] = 0
        /\ \A k \in 1..Len(ret'.rows) :
              /\ ret'.rows[k].id \in DOMAIN nodes
              /\ ret'.rows[k] = nodes'[ret'.rows[k].id]
              /\ ret'.dist[k] \in 0..AtLeastZero(last'.depth)
        /\ last'.depth >= 1 =>
              \A l \in Range(nodes[last'.node_id].links) \cap DOMAIN nodes :
                  \E k \in 1..Len(ret'.rows) : ret'.rows[k].id = l
    ]_vars

\* the start node lists an id that names no node before the id of an
\* existing node: connections returned the start node and the existing one
DanglingIdSkipped ==
    /\ last.op = "connections"
    /\ ret.status = "ok"
    /\ last.depth >= 1
    /\ Len(nodes[last.node_id].links) = 2
    /\ nodes[last.node_id].links[1] \notin DOMAIN nodes
    /\ nodes[last.node_id].links[2] \in DOMAIN nodes
    /\ Len(ret.rows) = 2
    /\ ret.rows[2].id = nodes[last.node_id].links[2]
    /\ ret.dist = <<0, 1>>

---------------------------------------------------------------------------
(* C28 *)

\* the ids of a sequence of (id, distance) pairs
PairIds(pairs) == [k \in 1..Len(pairs) |-> pairs[k][1]]

\* no entry of a sequence comes twice
Distinct(s) == \A j, k \in 1..Len(s) : j # k => s[j] # s[k]

\* an id is processed at most once: no id is twice among those appended to
\* order and those waiting in the queue, and each of them is in visited
ProcessedOnce ==
    \A t \in Threads :
        threads[t].pc = "c_loop" =>
            /\ Distinct(PairIds(threads[t].order) \o PairIds(threads[t].queue))
            /\ Range(PairIds(threads[t].order) \o PairIds(threads[t].queue))
                  \subseteq DOMAIN threads[t].visited

\* C28: on every store, for every existing start node and every depth (also
\* one larger than any distance in the graph, also on graphs with cycles),
\* connections processes each node at most once, and a call that has
\* entered its loop leaves it and returns.
TraversalTerminates ==
    /\ []ProcessedOnce
    /\ (threads[1].pc = "c_loop") ~> (threads[1].pc = "idle")

\* a call with a depth beyond every distance has returned all three nodes
\* of a triangle, each once
TriangleTraversedOnce ==
    /\ threads[1].pc = "idle"
    /\ last.op = "connections"
    /\ last.depth = MaxDepth + 1
    /\ DOMAIN nodes = {1, 2, 3}
    /\ \A i \in 1..3 : Range(nodes[i].links) = {1, 2, 3} \ {i}
    /\ Len(ret.rows) = 3
    /\ ret.dist = <<0, 1, 1>>

---------------------------------------------------------------------------
(* C30 *)

\* the ids the last call of caller t returned
ReturnedTo(t) == Range(PairIds(threads[t].order))

\* the value of a counter before two calls: the smaller of the values they
\* found when they began
Prior(i) ==
    IF threads[1].prior[i] <= threads[2].prior[i]
    THEN threads[1].prior[i] ELSE threads[2].prior[i]

\* both callers are back from two calls that ran at the same time, and at
\* the same time as no other call: the last call of each met exactly one
\* call of the other, which then is the other's last
BothBack ==
    /\ \A t \in Threads : threads[t].pc = "idle" /\ threads[t].overlap = 1
    /\ \A t \in Threads : threads[t].op \in {"recall", "connections"}

\* C30: when two recall or connections calls that both return node N have
\* run concurrently, in any interleaving of their steps, N's access_count
\* after both are complete is its value before them plus 2.
ConcurrentHitsCounted ==
    BothBack =>
        \A i \in ReturnedTo(1) \cap ReturnedTo(2) :
            nodes[i].access_count = Prior(i) + 2

\* a recall and a connections call ran at the same time, both returned
\* node 1 and node 2, and both nodes were counted twice
RecallMetConnections ==
    /\ BothBack
    /\ threads[1].op = "recall"
    /\ threads[2].op = "connections"
    /\ ReturnedTo(1) = {1, 2}
    /\ ReturnedTo(2) = {1, 2}
    /\ \A i \in {1, 2} : nodes[i].access_count = 2 /\ appeared[i] = 2

---------------------------------------------------------------------------
(* C32 *)

\* a query that is not empty and holds whitespace only
BlankQuery(query) ==
    query # <<>> /\ \A k \in 1..Len(query) : query[k] = Space

\* C32: a recall with a query made only of whitespace and with no tags has
\* returned an empty result and has not failed, the same as a recall with
\* both inputs empty.
BlankQueryReturnsEmpty ==
    (last.op = "recall" /\ BlankQuery(last.query) /\ OrEmpty(last.tags) = <<>>)
       => ret.status = "ok" /\ ret.rows = <<>>

---------------------------------------------------------------------------
(* C31 *)

\* C31: every element of the list a recall has returned is the record of a
\* node, never None, also when a forget of a matched node ran between the
\* selection of the candidates and the re-read of the returned ids.
RecallReturnsRecords ==
    (last.op = "recall" /\ ret.status = "ok") =>
        \A k \in 1..Len(ret.rows) : ret.rows[k] # NoneEntry

---------------------------------------------------------------------------
(* C33 *)

\* this step read a tools/call that carries an id
ReadToolCall ==
    /\ Len(stdin') = Len(stdin) + 1
    /\ stdin'[Len(stdin')].kind = "object"
    /\ ~IsNone(stdin'[Len(stdin')].id)
    /\ stdin'[Len(stdin')].method = "tools/call"

\* handling the call that was read fails: its params or its arguments are
\* no object, the tool is unknown, a required argument is missing, or the
\* store raised
CallFails ==
    \/ ~Called.isdict
    \/ Called.name \notin TOOLS
    \/ ~Called.arguments.isdict
    \/ Called.name = "remember" /\ IsNone(Called.arguments.content)
    \/ Called.name \in {"connections", "forget", "update"}
          /\ IsNone(Called.arguments.node_id)
    \/ ret'.status = "error" /\ last' # last

\* C33: a failure while handling a tools/call does not leave
\* handle_tools_call as an exception: main writes a response with a tool
\* result that has isError true and carries the message, and is still
\* there to answer the next request.
ToolCallFailuresContained ==
    [][ReadToolCall /\ CallFails =>
        /\ running'
        /\ Len(stdout') = Len(stdout) + 1
        /\ stdout'[Len(stdout')].id = Val(stdin'[Len(stdin')].id)
        /\ Result.isError
        /\ Result.content.str # ""]_vars

=============================================================================
